---- MODULE Spec2Model ----
(***************************************************************************)
(* A state-machine model of the FortCore match plugin                      *)
(* (src/src/endstone_fortcore/fortcore.py) and of its RollbackManager      *)
(* variant (src/src/endstone_fortcore/rollback.py): the per-player         *)
(* lifecycle LOBBY -> TELEPORTING -> MATCH -> ROLLBACK -> LOBBY, the       *)
(* buffered CSV action log, and the batched reverse replay driven by the   *)
(* host scheduler.                                                         *)
(*                                                                         *)
(* The host runtime is modelled by what the plugin sees of it: the set of  *)
(* connected players, the block store of the arena, the rollback directory *)
(* and the scheduler's one-shot and repeating tasks.  Scheduler delays are *)
(* not counted in ticks: a scheduled callback may run at any later step.   *)
(***************************************************************************)
EXTENDS Integers, Sequences, FiniteSets, TLC

VARIABLES
    player_data,        \* FortCore.player_data: uuid -> PlayerData (a dict)
    files,              \* the rollback directory: uuid -> lines of rollback_<uuid>.csv
    world,              \* the block store: coordinate -> block type
    rollback_tasks,     \* FortCore.rollback_tasks: uuid -> task id (a dict)
    repeating,          \* scheduler: the repeating process_rollback_batch tasks
    oneshots,           \* scheduler: pending one-shot callbacks (a bag)
    online,             \* the connected players
    forms,              \* players with the kit menu open
    teleport_cooldown,  \* FortCore.teleport_cooldown: kit -> seconds left of the 5 s
    plugin_config,      \* FortCore.plugin_config: the kits and maps of config.yml
    worlds,             \* server.worlds: the names of the loaded worlds
    pristine,           \* history: the block store before any match
    touched,            \* history: coordinates changed by recorded mutations
    logged,             \* history: per player, the mutations recorded this match
    resumed,            \* history: the players whose replay the startup scan began
    applied,            \* history: per player, the rows reverted since the match began
    after_death,        \* history: per player, mutations recorded while its death's
                        \*          delayed start_rollback was pending
    backlog,            \* history: per player, queue length when the replay task was scheduled
    invocations,        \* history: per player, process_rollback_batch calls of this replay
    raised,             \* history: the callback that ran last ended by an exception
                        \*          that nothing in the plugin caught
    undeletable,        \* the rollback directory: the logs whose unlink raises
    leftover,           \* history: the logs finish_rollback could not delete, until
                        \*          they are deleted or written anew
    player_calls,       \* history: per player, the calls made on the player object
                        \*          while its state was ROLLBACK, since its replay was
                        \*          scheduled: reset_player, and the completion message
                        \*          (forgotten when the player disconnects or enters
                        \*          the next match)
    since_join,         \* history: per kit, the seconds since a join for it was last
                        \*          accepted, counted up to the cooldown
    lastOp,             \* history: the handler that ran last, and for whom
    variant             \* which engine the plugin runs: "FortCore" or "RollbackManager"

vars == <<player_data, files, world, rollback_tasks, repeating, oneshots, online,
          forms, teleport_cooldown, plugin_config, worlds, pristine, touched, logged,
          resumed, applied, after_death, backlog, invocations, raised, since_join,
          undeletable, leftover, player_calls, lastOp, variant>>

----------------------------------------------------------------------------
(* Bounds of the model *)

NumPlayers == 2
NumCoords == 2
MaxRecords == 3
MaxTasks == 2
MaxPending == 1

(* Program constants *)

BATCH_SIZE == 2
COOLDOWN_SECONDS == 5
DEFAULT_MAX_PLAYERS == 8

PlayerName == <<"p1", "p2", "p3", "p4">>
Players == {PlayerName[i] : i \in 1..NumPlayers}

Coord(i) == <<9 + i, 64, 10>>
Coords == {Coord(i) : i \in 1..NumCoords}

AIR == "minecraft:air"
STONE == "minecraft:stone"
DIRT == "minecraft:dirt"
NaturalBlocks == {AIR, STONE}
PlaceableBlocks == {DIRT}

None == "None"

Min(a, b) == IF a < b THEN a ELSE b

Reverse(s) == [i \in 1..Len(s) |-> s[Len(s) + 1 - i]]

----------------------------------------------------------------------------
(* Configuration: the default config.yml written by load_plugin_config *)

Kits == << [name |-> "Diamond SMP", maxPlayers |-> DEFAULT_MAX_PLAYERS] >>
Maps == << [name |-> "Diamond Arena", world |-> "world"] >>
KitIndexes == 0..(Len(Kits) - 1)

\* the longest kit list of the configurations below
MaxKits == 3
MenuIndexes == 0..(MaxKits - 1)
DefaultConfig == [kits |-> Kits, maps |-> Maps]

----------------------------------------------------------------------------
(* Python str(int) and int(str) on the integers the log can hold *)

Digits == <<"0", "1", "2", "3", "4", "5", "6", "7", "8", "9">>

RECURSIVE str(_)
str(n) ==
    IF n < 0 THEN "-" \o str(0 - n)
    ELSE IF n < 10 THEN Digits[n + 1]
    ELSE str(n \div 10) \o Digits[(n % 10) + 1]

\* the coordinates of the arena and of the cells next to them
IntLiterals == UNION {{c[1] + d, c[2] + d, c[3] + d} : c \in Coords, d \in {0 - 1, 0, 1}}

IsInt(s) == \E n \in IntLiterals : str(n) = s
int(s) == CHOOSE n \in IntLiterals : str(n) = s

----------------------------------------------------------------------------
(* The CSV log *)

HeaderRow == <<"timestamp", "action", "x", "y", "z", "block_type">>
TIMESTAMP == "0.0"

RollbackAction(action_type, c, block_type) ==
    [action_type |-> action_type, x |-> c[1], y |-> c[2], z |-> c[3],
     block_type |-> block_type]

\* csv.writer.writerow in flush_buffer: one line of six text fields
CsvRow(a) == <<TIMESTAMP, a.action_type, str(a.x), str(a.y), str(a.z), a.block_type>>

\* csv.DictReader: the first line names the fields of every later line; a
\* field the line is too short for reads as None, and an empty line is passed
DictRow(fieldnames, line) ==
    [k \in {fieldnames[i] : i \in 1..Len(fieldnames)} |->
        LET i == CHOOSE i \in 1..Len(fieldnames) :
                    /\ fieldnames[i] = k
                    /\ \A j \in 1..Len(fieldnames) : fieldnames[j] = k => j <= i
        IN  IF i <= Len(line) THEN line[i] ELSE None]

DictReader(lines) ==
    IF lines = <<>> THEN <<>>
    ELSE LET rows == SelectSeq(Tail(lines), LAMBDA line : line # <<>>)
         IN  [i \in 1..Len(rows) |-> DictRow(lines[1], rows[i])]

read_rollback_csv_unreversed(fs, path) == DictReader(fs[path])

read_rollback_csv(fs, path) == Reverse(DictReader(fs[path]))

----------------------------------------------------------------------------
(* The plugin's state as one record, so that a handler is a function from  *)
(* state to state and a call from one handler to another is composition.   *)

Cur ==
    [player_data |-> player_data, files |-> files, world |-> world,
     rollback_tasks |-> rollback_tasks, repeating |-> repeating,
     oneshots |-> oneshots, online |-> online, forms |-> forms,
     teleport_cooldown |-> teleport_cooldown, plugin_config |-> plugin_config,
     worlds |-> worlds, touched |-> touched,
     logged |-> logged, resumed |-> resumed, applied |-> applied,
     after_death |-> after_death, backlog |-> backlog,
     invocations |-> invocations, raised |-> FALSE,
     undeletable |-> undeletable, leftover |-> leftover,
     player_calls |-> player_calls]

DictSet(d, k, v) == [x \in (DOMAIN d) \cup {k} |-> IF x = k THEN v ELSE d[x]]
DictDel(d, k) == [x \in (DOMAIN d) \ {k} |-> d[x]]

\* history: the log that is still there after finish_rollback's unlink
not_deleted(s, path) ==
    IF path \in DOMAIN s.files THEN [s EXCEPT !.leftover = @ \cup {path}] ELSE s

\* Path.unlink inside a try whose except clause goes on: the file is removed,
\* or the call raises and the file stays
unlink(s, path) ==
    IF path \in s.undeletable THEN s
    ELSE [s EXCEPT !.files = DictDel(@, path), !.leftover = @ \ {path}]

\* PlayerData.__init__
NewPlayerData ==
    [state |-> "LOBBY", rollback_buffer |-> <<>>, csv_path |-> None,
     current_map |-> None, current_kit |-> None,
     pending_rollback_actions |-> <<>>]

\* history: a call on the player object of u
called(s, u, what) == [s EXCEPT !.player_calls[u] = Append(@, what)]

get_player_data(s, u) ==
    IF u \in DOMAIN s.player_data THEN s
    ELSE [s EXCEPT !.player_data = DictSet(@, u, NewPlayerData)]

StateOf(pd, u) == IF u \in DOMAIN pd THEN pd[u].state ELSE "LOBBY"
PendingOf(pd, u) == IF u \in DOMAIN pd THEN pd[u].pending_rollback_actions ELSE <<>>
BufferOf(pd, u) == IF u \in DOMAIN pd THEN pd[u].rollback_buffer ELSE <<>>

----------------------------------------------------------------------------
(* The scheduler *)

Task(fn, u, arg) == [fn |-> fn, uid |-> u, arg |-> arg]

OneShots ==
    {Task(fn, u, 0 - 1) : fn \in {"handle_join_sequence", "reset_player", "start_rollback"},
                          u \in Players}
    \cup {Task("teleport_to_match", u, k) : u \in Players, k \in MenuIndexes}
    \cup {Task("resume_incomplete_rollbacks", None, 0 - 1)}

run_task(s, t) == [s EXCEPT !.oneshots[t] = @ + 1]
task_done(s, t) == [s EXCEPT !.oneshots[t] = @ - 1]

TaskIds == 1..(MaxTasks + NumPlayers)
NewTaskId(s) ==
    CHOOSE i \in TaskIds :
        /\ i \notin {t.id : t \in s.repeating}
        /\ \A j \in TaskIds : j \notin {t.id : t \in s.repeating} => i <= j

\* scheduler.run_task(..., period=10): a new repeating task; returns the state
run_repeating(s, u) == [s EXCEPT !.repeating = @ \cup {[id |-> NewTaskId(s), uid |-> u]}]

cancel_task(s, id) == [s EXCEPT !.repeating = {t \in @ : t.id # id}]

----------------------------------------------------------------------------
(* FortCore: recording and flushing *)

AppendLines(fs, path, rows) ==
    IF path \in DOMAIN fs THEN [fs EXCEPT ![path] = @ \o rows]
    ELSE DictSet(fs, path, rows)

RowsOf(buffer) == [i \in 1..Len(buffer) |-> CsvRow(buffer[i])]

flush_buffer_keeps(s, u) ==
    LET s1 == get_player_data(s, u)
        data == s1.player_data[u]
    IN  IF data.csv_path = None \/ data.rollback_buffer = <<>> THEN s1
        ELSE [s1 EXCEPT
                !.files = AppendLines(@, data.csv_path, RowsOf(data.rollback_buffer))]

flush_buffer(s, u) ==
    LET s1 == get_player_data(s, u)
        data == s1.player_data[u]
    IN  IF data.csv_path = None \/ data.rollback_buffer = <<>> THEN s1
        ELSE [s1 EXCEPT
                !.files = AppendLines(@, data.csv_path, RowsOf(data.rollback_buffer)),
                !.player_data[u].rollback_buffer = <<>>]

RECURSIVE flush_each(_, _)
flush_each(s, us) ==
    IF us = {} THEN s
    ELSE LET u == CHOOSE x \in us : TRUE
         IN  flush_each(IF s.player_data[u].state = "MATCH"
                           /\ s.player_data[u].rollback_buffer # <<>>
                        THEN flush_buffer(s, u) ELSE s,
                        us \ {u})

flush_all_buffers(s) == flush_each(s, DOMAIN s.player_data)

init_rollback_appends(s, u) ==
    LET s1 == get_player_data(s, u)
    IN  [s1 EXCEPT
            !.player_data[u].rollback_buffer = <<>>,
            !.player_data[u].pending_rollback_actions = <<>>,
            !.player_data[u].csv_path = u,
            !.files = AppendLines(@, u, <<HeaderRow>>),
            !.logged[u] = <<>>,
            !.resumed = @ \ {u},
            !.applied[u] = <<>>,
            !.after_death[u] = 0]

init_rollback(s, u) ==
    LET s1 == get_player_data(s, u)
    IN  [s1 EXCEPT
            !.player_data[u].rollback_buffer = <<>>,
            !.player_data[u].pending_rollback_actions = <<>>,
            !.player_data[u].csv_path = u,
            !.files = DictSet(@, u, <<HeaderRow>>),
            !.leftover = @ \ {u},
            !.player_calls[u] = <<>>,
            !.logged[u] = <<>>,
            !.resumed = @ \ {u},
            !.applied[u] = <<>>,
            !.after_death[u] = 0]

----------------------------------------------------------------------------
(* FortCore: reverting *)

LoadedWorlds == {"world"}

\* the world lookup of revert_action: the configured world, else the first one
level_of(s, world_name) ==
    IF world_name \in s.worlds THEN world_name
    ELSE IF s.worlds # {} THEN CHOOSE w \in s.worlds : TRUE
    ELSE None

revert_action_keeps_placed(s, action) ==
    IF ~({"x", "y", "z", "block_type", "action"} \subseteq DOMAIN action) THEN s
    ELSE IF ~(IsInt(action["x"]) /\ IsInt(action["y"]) /\ IsInt(action["z"])) THEN s
    ELSE LET c == <<int(action["x"]), int(action["y"]), int(action["z"])>>
         IN  IF c \notin DOMAIN s.world THEN s
             ELSE IF action["action"] = "break"
                  THEN [s EXCEPT !.world[c] = action["block_type"]]
                  ELSE s

\* lines 724-761: every failure is caught and the row skipped
revert_action(s, action) ==
    IF ~({"x", "y", "z"} \subseteq DOMAIN action) THEN s
    ELSE IF ~(IsInt(action["x"]) /\ IsInt(action["y"]) /\ IsInt(action["z"])) THEN s
    ELSE IF ~({"block_type", "action"} \subseteq DOMAIN action) THEN s
    ELSE LET c == <<int(action["x"]), int(action["y"]), int(action["z"])>>
             maps == s.plugin_config.maps
             world_name == IF maps # <<>> THEN maps[1].world ELSE "world"
         IN  IF level_of(s, world_name) = None THEN s
             ELSE IF c \notin DOMAIN s.world THEN s
             ELSE IF action["action"] = "place" THEN [s EXCEPT !.world[c] = AIR]
             ELSE IF action["action"] = "break" /\ action["block_type"] # None
                  THEN [s EXCEPT !.world[c] = action["block_type"]]
                  ELSE s

\* FortCore.reset_player: the state part (the player API calls that follow
\* change nothing the plugin keeps)
reset_player(s, u) ==
    LET s1 == get_player_data(s, u)
        data == s1.player_data[u]
        s2 == IF u \in DOMAIN s1.rollback_tasks
              THEN [cancel_task(s1, s1.rollback_tasks[u]) EXCEPT
                        !.rollback_tasks = DictDel(@, u)]
              ELSE s1
        s3 == IF data.csv_path # None /\ data.csv_path \in DOMAIN s2.files
              THEN unlink(s2, data.csv_path)
              ELSE s2
        s4 == [s3 EXCEPT
                 !.player_data[u].rollback_buffer = <<>>,
                 !.player_data[u].pending_rollback_actions = <<>>,
                 !.player_data[u].csv_path = None,
                 !.player_data[u].current_kit = None,
                 !.player_data[u].current_map = None]
        s5 == IF data.state # "ROLLBACK" THEN s4 ELSE called(s1, u, "reset_player")
    IN  [s5 EXCEPT !.player_data[u].state = "LOBBY"]

finish_rollback_aborts(s, u) ==
    LET s1 == get_player_data(s, u)
        data == s1.player_data[u]
        s2 == IF u \in DOMAIN s1.rollback_tasks
              THEN [cancel_task(s1, s1.rollback_tasks[u]) EXCEPT
                        !.rollback_tasks = DictDel(@, u)]
              ELSE s1
        s3 == IF data.csv_path # None /\ data.csv_path \in DOMAIN s2.files
              THEN not_deleted(unlink(s2, data.csv_path), data.csv_path)
              ELSE s2
        s4 == [s3 EXCEPT
                 !.player_data[u].rollback_buffer = <<>>,
                 !.player_data[u].pending_rollback_actions = <<>>,
                 !.player_data[u].csv_path = None,
                 !.player_data[u].current_kit = None,
                 !.player_data[u].current_map = None]
    IN  IF data.state # "ROLLBACK" THEN s1
        ELSE IF data.csv_path # None /\ data.csv_path \in DOMAIN s3.files THEN s3
        ELSE IF u \in s4.online THEN called(reset_player(s4, u), u, "send_message")
        ELSE [s4 EXCEPT !.player_data[u].state = "LOBBY"]

finish_rollback(s, u) ==
    LET s1 == get_player_data(s, u)
        data == s1.player_data[u]
        s2 == IF u \in DOMAIN s1.rollback_tasks
              THEN [cancel_task(s1, s1.rollback_tasks[u]) EXCEPT
                        !.rollback_tasks = DictDel(@, u)]
              ELSE s1
        s3 == IF data.csv_path # None /\ data.csv_path \in DOMAIN s2.files
              THEN not_deleted(unlink(s2, data.csv_path), data.csv_path)
              ELSE s2
        s4 == [s3 EXCEPT
                 !.player_data[u].rollback_buffer = <<>>,
                 !.player_data[u].pending_rollback_actions = <<>>,
                 !.player_data[u].csv_path = None,
                 !.player_data[u].current_kit = None,
                 !.player_data[u].current_map = None]
    IN  IF data.state # "ROLLBACK" THEN s1
        ELSE IF u \in s4.online THEN called(reset_player(s4, u), u, "send_message")
        ELSE [s4 EXCEPT !.player_data[u].state = "LOBBY"]

\* the scheduling branch of start_rollback and of the startup scan
schedule_replay(s, u, actions) ==
    LET s1 == run_repeating(s, u)
    IN  [s1 EXCEPT
            !.player_data[u].pending_rollback_actions = actions,
            !.rollback_tasks = DictSet(@, u, NewTaskId(s)),
            !.backlog[u] = Len(actions),
            !.invocations[u] = 0,
            !.player_calls[u] = <<>>]

start_rollback_no_guard(s, u) ==
    LET s1 == get_player_data(s, u)
        s2 == flush_buffer([s1 EXCEPT !.player_data[u].state = "ROLLBACK"], u)
        data == s2.player_data[u]
    IN  IF data.csv_path # None /\ data.csv_path \in DOMAIN s2.files
        THEN LET actions == read_rollback_csv(s2.files, data.csv_path)
             IN  IF actions # <<>> THEN schedule_replay(s2, u, actions)
                 ELSE finish_rollback(s2, u)
        ELSE finish_rollback(s2, u)

start_rollback_no_flush(s, u) ==
    LET s1 == get_player_data(s, u)
        s2 == [s1 EXCEPT !.player_data[u].state = "ROLLBACK"]
        data == s2.player_data[u]
    IN  IF s1.player_data[u].state = "ROLLBACK" THEN s1
        ELSE IF data.csv_path # None /\ data.csv_path \in DOMAIN s2.files
        THEN LET actions == read_rollback_csv(s2.files, data.csv_path)
             IN  IF actions # <<>> THEN schedule_replay(s2, u, actions)
                 ELSE finish_rollback(s2, u)
        ELSE finish_rollback(s2, u)

\* lines 658-689
start_rollback(s, u) ==
    LET s1 == get_player_data(s, u)
        s2 == flush_buffer([s1 EXCEPT !.player_data[u].state = "ROLLBACK"], u)
        data == s2.player_data[u]
    IN  IF s1.player_data[u].state = "ROLLBACK" THEN s1
        ELSE IF data.csv_path # None /\ data.csv_path \in DOMAIN s2.files
        THEN LET actions == read_rollback_csv(s2.files, data.csv_path)
             IN  IF actions # <<>> THEN schedule_replay(s2, u, actions)
                 ELSE finish_rollback(s2, u)
        ELSE finish_rollback(s2, u)

\* history: one more invocation of the batch callback in the player's rollback
count_invocation(s, u) ==
    IF s.player_data[u].state = "ROLLBACK" THEN [s EXCEPT !.invocations[u] = @ + 1]
    ELSE s

RECURSIVE revert_each(_, _)
revert_each(s, actions) ==
    IF actions = <<>> THEN s
    ELSE revert_each(revert_action(s, Head(actions)), Tail(actions))

process_rollback_batch_all(s, u) ==
    LET s1 == get_player_data(s, u)
        actions == s1.player_data[u].pending_rollback_actions
        s2 == count_invocation(s1, u)
    IN  IF actions = <<>> THEN finish_rollback(s2, u)
        ELSE finish_rollback(
                [revert_each(s2, actions) EXCEPT
                           !.applied[u] = @ \o actions,
                           !.player_data[u].pending_rollback_actions = <<>>], u)

process_rollback_batch_late_finish(s, u) ==
    LET s1 == get_player_data(s, u)
        actions == s1.player_data[u].pending_rollback_actions
        n == Min(BATCH_SIZE, Len(actions))
        s2 == count_invocation(s1, u)
    IN  IF actions = <<>> THEN finish_rollback(s2, u)
        ELSE [revert_each(s2, SubSeq(actions, 1, n)) EXCEPT
                 !.applied[u] = @ \o SubSeq(actions, 1, n),
                 !.player_data[u].pending_rollback_actions =
                     SubSeq(actions, n + 1, Len(actions))]

process_rollback_batch_trims(s, u) ==
    LET s1 == get_player_data(s, u)
        actions == s1.player_data[u].pending_rollback_actions
        n == Min(BATCH_SIZE, Len(actions))
        s2 == count_invocation(s1, u)
        s3 == [revert_each(s2, SubSeq(actions, 1, n)) EXCEPT
                 !.applied[u] = @ \o SubSeq(actions, 1, n),
                 !.files[u] = SubSeq(@, 1, Len(@) - n),
                 !.player_data[u].pending_rollback_actions =
                     SubSeq(actions, n + 1, Len(actions))]
    IN  IF actions = <<>> THEN finish_rollback(s2, u)
        ELSE IF s3.player_data[u].pending_rollback_actions = <<>>
             THEN finish_rollback(s3, u)
             ELSE s3

process_rollback_batch(s, u) ==
    LET s1 == get_player_data(s, u)
        actions == s1.player_data[u].pending_rollback_actions
        n == Min(BATCH_SIZE, Len(actions))
        s2 == count_invocation(s1, u)
        s3 == [revert_each(s2, SubSeq(actions, 1, n)) EXCEPT
                 !.applied[u] = @ \o SubSeq(actions, 1, n),
                 !.player_data[u].pending_rollback_actions =
                     SubSeq(actions, n + 1, Len(actions))]
    IN  IF actions = <<>> THEN finish_rollback(s2, u)
        ELSE IF s3.player_data[u].pending_rollback_actions = <<>>
             THEN finish_rollback(s3, u)
             ELSE s3

----------------------------------------------------------------------------
(* FortCore: the handlers, as functions of the state *)

\* lines 328-352
on_player_join_fn(s, u) ==
    LET s1 == get_player_data([s EXCEPT !.online = @ \cup {u}], u)
        s2 == IF s1.player_data[u].state # "ROLLBACK" /\ u \in DOMAIN s1.files
              THEN unlink(s1, u)
              ELSE s1
    IN  run_task(s2, Task("handle_join_sequence", u, 0 - 1))

\* lines 354-365
handle_join_sequence_fn(s, u) ==
    LET s1 == get_player_data(s, u)
    IN  IF s1.player_data[u].state # "ROLLBACK" THEN reset_player(s1, u) ELSE s1

\* lines 367-385: the compass click; open_kit_menu sends the form
on_player_interact_fn(s, u) ==
    LET s1 == get_player_data(s, u)
    IN  IF s1.player_data[u].state # "LOBBY" THEN s1
        ELSE [s1 EXCEPT !.forms = @ \cup {u}]

\* the scan of handle_kit_select and open_kit_menu: players in MATCH with the kit
online_count(pd, kit_name) ==
    Cardinality({v \in DOMAIN pd : pd[v].state = "MATCH" /\ pd[v].current_kit = kit_name})

\* teleport_cooldown.get(kit, 0) against now: TRUE when under 5 s have passed
cooldown_active(s, kit_name) ==
    /\ kit_name \in DOMAIN s.teleport_cooldown
    /\ s.teleport_cooldown[kit_name] < COOLDOWN_SECONDS

handle_kit_select_over(s, u, kit_index) ==
    LET s1 == get_player_data([s EXCEPT !.forms = @ \ {u}], u)
        kits == s1.plugin_config.kits
        maps == s1.plugin_config.maps
    IN  IF kit_index >= Len(kits) \/ kit_index >= Len(maps) THEN s1
        ELSE LET kit == kits[kit_index + 1]
             IN  IF s1.player_data[u].state # "LOBBY" THEN s1
                 ELSE IF online_count(s1.player_data, kit.name) > kit.maxPlayers THEN s1
                 ELSE IF cooldown_active(s1, kit.name) THEN s1
                 ELSE run_task(
                        [s1 EXCEPT
                           !.player_data[u].state = "TELEPORTING",
                           !.teleport_cooldown = DictSet(@, kit.name, 0)],
                        Task("teleport_to_match", u, kit_index))

handle_kit_select_stamps(s, u, kit_index) ==
    LET s1 == get_player_data([s EXCEPT !.forms = @ \ {u}], u)
        kits == s1.plugin_config.kits
        maps == s1.plugin_config.maps
    IN  IF kit_index >= Len(kits) \/ kit_index >= Len(maps) THEN s1
        ELSE LET kit == kits[kit_index + 1]
                 s2 == [s1 EXCEPT !.teleport_cooldown = DictSet(@, kit.name, 0)]
             IN  IF s1.player_data[u].state # "LOBBY" THEN s1
                 ELSE IF online_count(s1.player_data, kit.name) >= kit.maxPlayers THEN s1
                 ELSE IF cooldown_active(s1, kit.name) THEN s2
                 ELSE run_task(
                        [s2 EXCEPT !.player_data[u].state = "TELEPORTING"],
                        Task("teleport_to_match", u, kit_index))

handle_kit_select_hasty(s, u, kit_index) ==
    LET s1 == get_player_data([s EXCEPT !.forms = @ \ {u}], u)
        kits == s1.plugin_config.kits
        maps == s1.plugin_config.maps
    IN  IF kit_index >= Len(kits) \/ kit_index >= Len(maps) THEN s1
        ELSE LET kit == kits[kit_index + 1]
             IN  IF s1.player_data[u].state # "LOBBY" THEN s1
                 ELSE IF online_count(s1.player_data, kit.name) >= kit.maxPlayers THEN s1
                 ELSE run_task(
                        [s1 EXCEPT
                           !.player_data[u].state = "TELEPORTING",
                           !.teleport_cooldown = DictSet(@, kit.name, 0)],
                        Task("teleport_to_match", u, kit_index))

handle_kit_select_one_clock(s, u, kit_index) ==
    LET s1 == get_player_data([s EXCEPT !.forms = @ \ {u}], u)
        kits == s1.plugin_config.kits
        maps == s1.plugin_config.maps
    IN  IF kit_index >= Len(kits) \/ kit_index >= Len(maps) THEN s1
        ELSE LET kit == kits[kit_index + 1]
             IN  IF s1.player_data[u].state # "LOBBY" THEN s1
                 ELSE IF online_count(s1.player_data, kit.name) >= kit.maxPlayers THEN s1
                 ELSE IF cooldown_active(s1, "any") THEN s1
                 ELSE run_task(
                        [s1 EXCEPT
                           !.player_data[u].state = "TELEPORTING",
                           !.teleport_cooldown = DictSet(@, "any", 0)],
                        Task("teleport_to_match", u, kit_index))

\* lines 410-451
handle_kit_select_fn(s, u, kit_index) ==
    LET s1 == get_player_data([s EXCEPT !.forms = @ \ {u}], u)
        kits == s1.plugin_config.kits
        maps == s1.plugin_config.maps
    IN  IF kit_index >= Len(kits) \/ kit_index >= Len(maps) THEN s1
        ELSE LET kit == kits[kit_index + 1]
             IN  IF s1.player_data[u].state # "LOBBY" THEN s1
                 ELSE IF online_count(s1.player_data, kit.name) >= kit.maxPlayers THEN s1
                 ELSE IF cooldown_active(s1, kit.name) THEN s1
                 ELSE run_task(
                        [s1 EXCEPT
                           !.player_data[u].state = "TELEPORTING",
                           !.teleport_cooldown = DictSet(@, kit.name, 0)],
                        Task("teleport_to_match", u, kit_index))

\* lines 453-499; stale_raises: player.inventory.clear() on the handle of a
\* player who has disconnected since the task was scheduled raises
teleport_to_match_fn(s, u, kit_index, stale_raises) ==
    LET s1 == get_player_data(s, u)
        kit == s1.plugin_config.kits[kit_index + 1]
        map_data == s1.plugin_config.maps[kit_index + 1]
        level == level_of(s1, map_data.world)
    IN  IF stale_raises THEN s1
        ELSE IF level = None THEN [s1 EXCEPT !.player_data[u].state = "LOBBY"]
        ELSE init_rollback(
                [s1 EXCEPT
                    !.player_data[u].state = "MATCH",
                    !.player_data[u].current_kit = kit.name,
                    !.player_data[u].current_map = map_data.name], u)

on_block_break_any_state(s, u, c) ==
    LET s1 == get_player_data(s, u)
        action == RollbackAction("break", c, s.world[c])
    IN  [s1 EXCEPT
            !.player_data[u].rollback_buffer = Append(@, action),
            !.logged[u] = Append(@, action),
            !.touched = @ \cup {c},
            !.world[c] = AIR]

\* lines 519-538; the block at c is then broken by the game
on_block_break_fn(s, u, c) ==
    LET s1 == get_player_data(s, u)
        action == RollbackAction("break", c, s.world[c])
    IN  IF s1.player_data[u].state # "MATCH" THEN s1
        ELSE [s1 EXCEPT
                !.player_data[u].rollback_buffer = Append(@, action),
                !.logged[u] = Append(@, action),
                !.after_death[u] =
                    IF s.oneshots[Task("start_rollback", u, 0 - 1)] > 0 THEN @ + 1 ELSE @,
                !.touched = @ \cup {c},
                !.world[c] = AIR]

\* lines 540-559; the block of type b is then placed at c by the game
on_block_place_fn(s, u, c, b) ==
    LET s1 == get_player_data(s, u)
        action == RollbackAction("place", c, b)
    IN  IF s1.player_data[u].state # "MATCH" THEN s1
        ELSE [s1 EXCEPT
                !.player_data[u].rollback_buffer = Append(@, action),
                !.logged[u] = Append(@, action),
                !.after_death[u] =
                    IF s.oneshots[Task("start_rollback", u, 0 - 1)] > 0 THEN @ + 1 ELSE @,
                !.touched = @ \cup {c},
                !.world[c] = b]

\* lines 593-622
on_player_death_fn(s, u) ==
    LET s1 == get_player_data(s, u)
    IN  IF s1.player_data[u].state # "MATCH"
        THEN run_task(s1, Task("reset_player", u, 0 - 1))
        ELSE run_task(s1, Task("start_rollback", u, 0 - 1))

on_player_quit_keeps_match(s, u) ==
    get_player_data([s EXCEPT !.online = @ \ {u}, !.forms = @ \ {u}], u)

\* lines 624-634
on_player_quit_fn(s, u) ==
    LET s1 == get_player_data([s EXCEPT !.online = @ \ {u}, !.forms = @ \ {u},
                                        !.player_calls[u] = <<>>], u)
    IN  IF s1.player_data[u].state = "MATCH"
        THEN start_rollback(flush_buffer(s1, u), u)
        ELSE s1

\* lines 636-656, for a sender that is a player
on_command_fn(s, u) ==
    LET s1 == get_player_data(s, u)
    IN  IF s1.player_data[u].state # "MATCH" THEN s1
        ELSE start_rollback(flush_buffer(s1, u), u)

resume_file_unreversed(s, f) ==
    IF Len(s.files[f]) <= 1 THEN unlink(s, f)
    ELSE LET s1 == get_player_data(s, f)
             s2 == [s1 EXCEPT !.player_data[f].csv_path = f,
                              !.player_data[f].state = "ROLLBACK"]
             actions == DictReader(s2.files[f])
         IN  IF actions # <<>>
             THEN [schedule_replay(s2, f, actions) EXCEPT !.resumed = @ \cup {f}]
             ELSE unlink(s2, f)

\* lines 101-162: one csv file of the scan
resume_file(s, f) ==
    IF Len(s.files[f]) <= 1 THEN unlink(s, f)
    ELSE LET s1 == get_player_data(s, f)
             s2 == [s1 EXCEPT !.player_data[f].csv_path = f,
                              !.player_data[f].state = "ROLLBACK"]
             actions == read_rollback_csv(s2.files, f)
         IN  IF actions # <<>>
             THEN [schedule_replay(s2, f, actions) EXCEPT !.resumed = @ \cup {f}]
             ELSE unlink(s2, f)

RECURSIVE resume_each(_, _)
resume_each(s, fs) ==
    IF fs = {} THEN s
    ELSE LET f == CHOOSE x \in fs : TRUE
         IN  resume_each(resume_file(s, f), fs \ {f})

resume_incomplete_rollbacks_fn(s) == resume_each(s, DOMAIN s.files)

----------------------------------------------------------------------------
(* RollbackManager (rollback.py).  The plugin that owns it is not part of   *)
(* the sources: its player_data dict, get_player_data and reset_player are  *)
(* taken to be those the manager's code expects.                            *)

SMALL_BATCH == 10
MEDIUM_BATCH == 25
LARGE_BATCH == 40
HUGE_BATCH == 60
SMALL_LIMIT == 100
MEDIUM_LIMIT == 500
LARGE_LIMIT == 1000

FLUID_BLOCKS == {"minecraft:water", "minecraft:flowing_water",
                 "minecraft:lava", "minecraft:flowing_lava"}

\* rollback.py PlayerData.__init__
RM_NewPlayerData ==
    [state |-> "LOBBY", rollback_buffer |-> <<>>, csv_path |-> None,
     current_category |-> None, current_match |-> None,
     pending_rollback_actions |-> <<>>, rollback_enabled |-> TRUE,
     affected_blocks |-> {}]

plugin_get_player_data(s, u) ==
    IF u \in DOMAIN s.player_data THEN s
    ELSE [s EXCEPT !.player_data = DictSet(@, u, RM_NewPlayerData)]

plugin_reset_player(s, u) ==
    LET s1 == IF s.player_data[u].state = "ROLLBACK" THEN called(s, u, "reset_player")
              ELSE s
    IN  [s1 EXCEPT !.player_data[u].state = "LOBBY"]

\* server.get_player_by_name(data.uuid): a connected player whose name is the
\* uuid text; player names are not uuids
name_of(u) == "name_" \o u
get_player_by_name(s, name) == \E v \in s.online : name_of(v) = name

RM_calculate_batch_params(total_actions) ==
    IF total_actions < SMALL_LIMIT THEN SMALL_BATCH
    ELSE IF total_actions < MEDIUM_LIMIT THEN MEDIUM_BATCH
    ELSE IF total_actions < LARGE_LIMIT THEN LARGE_BATCH
    ELSE HUGE_BATCH

Neighbourhood(c) ==
    {<<c[1] + dx, c[2] + dy, c[3] + dz>> : dx \in {0 - 1, 0, 1},
                                            dy \in {0 - 1, 0, 1},
                                            dz \in {0 - 1, 0, 1}}

RM_track_affected_area(s, u, c, block_type) ==
    [s EXCEPT !.player_data[u].affected_blocks =
        @ \cup (IF block_type \in FLUID_BLOCKS THEN Neighbourhood(c) ELSE {c})]

RM_flush_buffer(s, u) ==
    LET data == s.player_data[u]
    IN  IF data.csv_path = None \/ data.rollback_buffer = <<>> THEN s
        ELSE [s EXCEPT
                !.files = AppendLines(@, data.csv_path, RowsOf(data.rollback_buffer)),
                !.player_data[u].rollback_buffer = <<>>]

RECURSIVE RM_flush_each(_, _)
RM_flush_each(s, us) ==
    IF us = {} THEN s
    ELSE LET u == CHOOSE x \in us : TRUE
             data == s.player_data[u]
         IN  RM_flush_each(IF data.state = "MATCH" /\ data.rollback_buffer # <<>>
                              /\ data.rollback_enabled
                           THEN RM_flush_buffer(s, u) ELSE s,
                           us \ {u})

RM_flush_all_buffers(s) == RM_flush_each(s, DOMAIN s.player_data)

RECURSIVE SetToSeq(_)
SetToSeq(S) ==
    IF S = {} THEN <<>>
    ELSE LET x == CHOOSE y \in S : TRUE IN <<x>> \o SetToSeq(S \ {x})

CleanupAction(c) ==
    [k \in {"action", "x", "y", "z", "block_type"} |->
        CASE k = "action" -> "cleanup"
          [] k = "x" -> str(c[1])
          [] k = "y" -> str(c[2])
          [] k = "z" -> str(c[3])
          [] OTHER -> AIR]

RM_generate_affected_area_cleanup(data) ==
    LET cs == SetToSeq(data.affected_blocks)
    IN  [i \in 1..Len(cs) |-> CleanupAction(cs[i])]

\* the result of one revert: the block store, and whether the call raised
\* (the except clause formats x, y and z, which are unbound when reading or
\* parsing a coordinate is what failed)
RM_revert_action(w, action) ==
    IF ~({"x", "y", "z"} \subseteq DOMAIN action)
       \/ ~(IsInt(action["x"]) /\ IsInt(action["y"]) /\ IsInt(action["z"]))
    THEN [world |-> w, raised |-> TRUE]
    ELSE IF "block_type" \notin DOMAIN action THEN [world |-> w, raised |-> FALSE]
    ELSE LET c == <<int(action["x"]), int(action["y"]), int(action["z"])>>
             action_type == IF "action" \in DOMAIN action THEN action["action"]
                            ELSE "unknown"
             set(b) == IF c \in DOMAIN w THEN [w EXCEPT ![c] = b] ELSE w
         IN  [world |-> CASE action_type = "place" -> set(AIR)
                          [] action_type = "break" /\ action["block_type"] # None
                               -> set(action["block_type"])
                          [] action_type = "cleanup" -> set(AIR)
                          [] OTHER -> w,
              raised |-> FALSE]

\* rollback.py lines 160-174
RM_init_rollback(s, u) ==
    [s EXCEPT
        !.player_data[u].rollback_buffer = <<>>,
        !.player_data[u].pending_rollback_actions = <<>>,
        !.player_data[u].affected_blocks = {},
        !.player_data[u].rollback_enabled = TRUE,
        !.player_data[u].csv_path = u,
        !.files = DictSet(@, u, <<HeaderRow>>),
        !.leftover = @ \ {u},
        !.player_calls[u] = <<>>,
        !.logged[u] = <<>>,
        !.resumed = @ \ {u},
        !.applied[u] = <<>>,
        !.after_death[u] = 0]

\* the owning plugin takes a player of the lobby into a match
plugin_enter_match(s, u) ==
    LET s1 == plugin_get_player_data(s, u)
    IN  RM_init_rollback(
            [s1 EXCEPT !.player_data[u].state = "MATCH",
                       !.player_data[u].current_category = "category",
                       !.player_data[u].current_match = "match"], u)

RM_finish_rollback(s, u, player) ==
    LET s1 == plugin_get_player_data(s, u)
        data == s1.player_data[u]
        s2 == IF u \in DOMAIN s1.rollback_tasks
              THEN [cancel_task(s1, s1.rollback_tasks[u]) EXCEPT
                        !.rollback_tasks = DictDel(@, u)]
              ELSE s1
        s3 == IF data.csv_path # None /\ data.csv_path \in DOMAIN s2.files
              THEN not_deleted(unlink(s2, data.csv_path), data.csv_path)
              ELSE s2
        s4 == [s3 EXCEPT
                 !.player_data[u].rollback_buffer = <<>>,
                 !.player_data[u].pending_rollback_actions = <<>>,
                 !.player_data[u].affected_blocks = {},
                 !.player_data[u].csv_path = None,
                 !.player_data[u].current_category = None,
                 !.player_data[u].current_match = None]
    IN  IF data.state # "ROLLBACK" THEN s1
        ELSE IF player THEN called(plugin_reset_player(s4, u), u, "send_message")
        ELSE [s4 EXCEPT !.player_data[u].state = "LOBBY"]

RM_schedule_replay(s, u, actions) ==
    LET s1 == run_repeating(s, u)
    IN  [s1 EXCEPT
            !.player_data[u].pending_rollback_actions = actions,
            !.rollback_tasks = DictSet(@, u, NewTaskId(s)),
            !.backlog[u] = Len(actions),
            !.invocations[u] = 0,
            !.player_calls[u] = <<>>]

RM_start_rollback_replays(s, u, player) ==
    LET data == s.player_data[u]
        s1 == [s EXCEPT !.player_data[u].current_category = None,
                        !.player_data[u].current_match = None]
        s2 == RM_flush_buffer([s1 EXCEPT !.player_data[u].state = "ROLLBACK"], u)
        d2 == s2.player_data[u]
    IN  IF data.state = "ROLLBACK" THEN s
        ELSE IF d2.csv_path # None /\ d2.csv_path \in DOMAIN s2.files
             THEN LET actions == read_rollback_csv(s2.files, d2.csv_path)
                                   \o RM_generate_affected_area_cleanup(d2)
                  IN  IF actions # <<>> THEN RM_schedule_replay(s2, u, actions)
                      ELSE RM_finish_rollback(s2, u, player)
             ELSE RM_finish_rollback(s2, u, player)

\* player: whether the caller passed a player object (the player is connected)
RM_start_rollback(s, u, player) ==
    LET data == s.player_data[u]
        match_name == data.current_match
        s1 == [s EXCEPT !.player_data[u].current_category = None,
                        !.player_data[u].current_match = None]
        other_players ==
            Cardinality({v \in DOMAIN s1.player_data :
                            /\ v # u
                            /\ s1.player_data[v].state = "MATCH"
                            /\ s1.player_data[v].current_match = match_name})
        skipped ==
            LET a == IF data.csv_path # None /\ data.csv_path \in DOMAIN s1.files
                     THEN unlink(s1, data.csv_path)
                     ELSE s1
                b == [a EXCEPT
                        !.player_data[u].rollback_buffer = <<>>,
                        !.player_data[u].pending_rollback_actions = <<>>,
                        !.player_data[u].affected_blocks = {},
                        !.player_data[u].csv_path = None]
            IN  IF player THEN plugin_reset_player(b, u)
                ELSE [b EXCEPT !.player_data[u].state = "LOBBY"]
        s2 == RM_flush_buffer([s1 EXCEPT !.player_data[u].state = "ROLLBACK"], u)
        d2 == s2.player_data[u]
    IN  IF data.state = "ROLLBACK" THEN s
        ELSE IF other_players > 0 THEN skipped
        ELSE IF d2.csv_path # None /\ d2.csv_path \in DOMAIN s2.files
             THEN LET actions == read_rollback_csv(s2.files, d2.csv_path)
                                   \o RM_generate_affected_area_cleanup(d2)
                  IN  IF actions # <<>> THEN RM_schedule_replay(s2, u, actions)
                      ELSE RM_finish_rollback(s2, u, player)
             ELSE RM_finish_rollback(s2, u, player)

RECURSIVE RM_batch_drops(_, _, _)
RM_batch_drops(r, actions, n) ==
    IF n = 0 \/ actions = <<>> THEN [r EXCEPT !.rest = actions]
    ELSE IF r.raised THEN [r EXCEPT !.rest = SubSeq(actions, n + 1, Len(actions))]
    ELSE LET o == RM_revert_action(r.world, Head(actions))
         IN  RM_batch_drops([world |-> o.world, raised |-> o.raised,
                             done |-> Append(r.done, Head(actions)),
                             rest |-> Tail(actions)],
                            Tail(actions), n - 1)

\* the loop of process_rollback_batch over at most n rows: it stops at a raise
RECURSIVE RM_batch(_, _, _)
RM_batch(r, actions, n) ==
    IF n = 0 \/ actions = <<>> \/ r.raised THEN [r EXCEPT !.rest = actions]
    ELSE LET o == RM_revert_action(r.world, Head(actions))
         IN  RM_batch([world |-> o.world, raised |-> o.raised,
                       done |-> Append(r.done, Head(actions)), rest |-> Tail(actions)],
                      Tail(actions), n - 1)

RM_process_rollback_batch(s, u) ==
    LET s1 == plugin_get_player_data(s, u)
        data == s1.player_data[u]
        actions == data.pending_rollback_actions
        player == get_player_by_name(s1, u)
        batch_size == RM_calculate_batch_params(Len(actions))
        r == RM_batch([world |-> s1.world, raised |-> FALSE, done |-> <<>>,
                       rest |-> actions],
                      actions, Min(batch_size, Len(actions)))
        s2 == count_invocation(s1, u)
        s3 == [s2 EXCEPT !.world = r.world,
                         !.applied[u] = @ \o r.done,
                         !.player_data[u].pending_rollback_actions = r.rest]
    IN  IF data.state # "ROLLBACK"
        THEN IF u \in DOMAIN s1.rollback_tasks
             THEN [cancel_task(s1, s1.rollback_tasks[u]) EXCEPT
                       !.rollback_tasks = DictDel(@, u)]
             ELSE s1
        ELSE IF actions = <<>> THEN RM_finish_rollback(s2, u, player)
        ELSE IF r.raised THEN [s3 EXCEPT !.raised = TRUE]
        ELSE IF r.rest = <<>> THEN RM_finish_rollback(s3, u, player)
        ELSE s3

RM_resume_file(s, f) ==
    IF Len(s.files[f]) <= 1 THEN unlink(s, f)
    ELSE LET s1 == plugin_get_player_data(s, f)
             s2 == [s1 EXCEPT !.player_data[f].csv_path = f,
                              !.player_data[f].state = "ROLLBACK",
                              !.player_data[f].rollback_enabled = TRUE]
             actions == read_rollback_csv(s2.files, f)
         IN  IF actions # <<>>
             THEN [RM_schedule_replay(s2, f, actions) EXCEPT !.resumed = @ \cup {f}]
             ELSE unlink(s2, f)

RECURSIVE RM_resume_each(_, _)
RM_resume_each(s, fs) ==
    IF fs = {} THEN s
    ELSE LET f == CHOOSE x \in fs : TRUE
         IN  RM_resume_each(RM_resume_file(s, f), fs \ {f})

RM_resume_rollbacks_fn(s) == RM_resume_each(s, DOMAIN s.files)

\* lines 87-99: flush, then cancel every registered replay task (the flush
\* task is not a task of the model: flush_timer stops with the plugin)
on_disable_fn(s) ==
    LET s1 == flush_all_buffers(s)
    IN  [s1 EXCEPT !.repeating =
            {t \in @ : \A u \in DOMAIN s1.rollback_tasks : s1.rollback_tasks[u] # t.id}]

\* the server stopped and started again: a new plugin instance, nothing in
\* memory, nobody connected, no task but the scan that on_enable schedules;
\* the files and the blocks are what they were
new_instance(s) ==
    [s EXCEPT !.player_data = [x \in {} |-> None],
              !.rollback_tasks = [x \in {} |-> None],
              !.repeating = {},
              !.oneshots = [t \in OneShots |->
                              IF t.fn = "resume_incomplete_rollbacks" THEN 1 ELSE 0],
              !.online = {},
              !.forms = {},
              !.teleport_cooldown = [x \in {} |-> None],
              !.resumed = {},
              !.applied = [u \in Players |-> <<>>],
              !.after_death = [u \in Players |-> 0],
              !.backlog = [u \in Players |-> 0],
              !.invocations = [u \in Players |-> 0],
              !.player_calls = [u \in Players |-> <<>>]]

\* rollback.py lines 79-91
RM_shutdown_fn(s) ==
    LET s1 == RM_flush_all_buffers(s)
    IN  [s1 EXCEPT !.repeating =
            {t \in @ : \A u \in DOMAIN s1.rollback_tasks : s1.rollback_tasks[u] # t.id}]

----------------------------------------------------------------------------
(* The actions: one per handler or scheduled callback *)

Bounded(s) ==
    /\ Cardinality(s.repeating) <= MaxTasks
    /\ \A t \in OneShots : s.oneshots[t] <= MaxPending

\* history: the kits for which the step schedules a teleport
JoinedKits(s) ==
    {s.plugin_config.kits[t.arg + 1].name :
        t \in {x \in OneShots : x.fn = "teleport_to_match" /\ s.oneshots[x] > oneshots[x]}}

\* history: the seconds since the last accepted join, after the step
Elapse(s, op) ==
    [k \in DOMAIN since_join |->
        IF k \in JoinedKits(s) THEN 0
        ELSE IF op = "second_passes" THEN Min(since_join[k] + 1, COOLDOWN_SECONDS)
        ELSE IF op = "time_passes" THEN COOLDOWN_SECONDS
        ELSE since_join[k]]

Commit(s, op, u) ==
    /\ Bounded(s)
    /\ player_data' = s.player_data
    /\ files' = s.files
    /\ world' = s.world
    /\ rollback_tasks' = s.rollback_tasks
    /\ repeating' = s.repeating
    /\ oneshots' = s.oneshots
    /\ online' = s.online
    /\ forms' = s.forms
    /\ teleport_cooldown' = s.teleport_cooldown
    /\ plugin_config' = s.plugin_config
    /\ worlds' = s.worlds
    /\ touched' = s.touched
    /\ logged' = s.logged
    /\ resumed' = s.resumed
    /\ applied' = s.applied
    /\ after_death' = s.after_death
    /\ backlog' = s.backlog
    /\ invocations' = s.invocations
    /\ raised' = s.raised
    /\ undeletable' = s.undeletable
    /\ leftover' = s.leftover
    /\ player_calls' = s.player_calls
    /\ since_join' = Elapse(s, op)
    /\ pristine' = pristine
    /\ variant' = variant
    /\ lastOp' = [op |-> op, uid |-> u]

Scheduled(fn, u, arg) == oneshots[Task(fn, u, arg)] > 0

on_player_join(u) ==
    /\ variant = "FortCore"
    /\ u \notin online
    /\ Commit(on_player_join_fn(Cur, u), "on_player_join", u)

handle_join_sequence(u) ==
    /\ variant = "FortCore"
    /\ Scheduled("handle_join_sequence", u, 0 - 1)
    /\ Commit(handle_join_sequence_fn(
                 task_done(Cur, Task("handle_join_sequence", u, 0 - 1)), u),
              "handle_join_sequence", u)

on_player_interact(u) ==
    /\ variant = "FortCore"
    /\ u \in online
    /\ Commit(on_player_interact_fn(Cur, u), "on_player_interact", u)

handle_kit_select(u, kit_index) ==
    /\ variant = "FortCore"
    /\ u \in online
    /\ u \in forms
    /\ Commit(handle_kit_select_fn(Cur, u, kit_index), "handle_kit_select", u)

teleport_to_match(u, kit_index) ==
    /\ variant = "FortCore"
    /\ Scheduled("teleport_to_match", u, kit_index)
    /\ \E stale_raises \in IF u \in online THEN {FALSE} ELSE BOOLEAN :
          Commit(teleport_to_match_fn(
                    task_done(Cur, Task("teleport_to_match", u, kit_index)),
                    u, kit_index, stale_raises),
                 "teleport_to_match", u)

on_block_break(u, c) ==
    /\ variant = "FortCore"
    /\ u \in online
    /\ world[c] # AIR
    /\ Commit(on_block_break_fn(Cur, u, c), "on_block_break", u)

on_block_place(u, c, b) ==
    /\ variant = "FortCore"
    /\ u \in online
    /\ world[c] = AIR
    /\ Commit(on_block_place_fn(Cur, u, c, b), "on_block_place", u)

flush_timer ==
    /\ variant = "FortCore"
    /\ Commit(flush_all_buffers(Cur), "flush_all_buffers", None)

on_player_death(u) ==
    /\ variant = "FortCore"
    /\ u \in online
    /\ Commit(on_player_death_fn(Cur, u), "on_player_death", u)

on_player_quit(u) ==
    /\ variant = "FortCore"
    /\ u \in online
    /\ Commit(on_player_quit_fn(Cur, u), "on_player_quit", u)

on_command(u) ==
    /\ variant = "FortCore"
    /\ u \in online
    /\ Commit(on_command_fn(Cur, u), "on_command", u)

delayed_start_rollback(u) ==
    /\ variant = "FortCore"
    /\ Scheduled("start_rollback", u, 0 - 1)
    /\ Commit(start_rollback(task_done(Cur, Task("start_rollback", u, 0 - 1)), u),
              "start_rollback", u)

delayed_reset_player(u) ==
    /\ variant = "FortCore"
    /\ Scheduled("reset_player", u, 0 - 1)
    /\ Commit(reset_player(task_done(Cur, Task("reset_player", u, 0 - 1)), u),
              "reset_player", u)

rollback_task(t) ==
    /\ variant = "FortCore"
    /\ t \in repeating
    /\ Commit(process_rollback_batch(Cur, t.uid), "process_rollback_batch", t.uid)

resume_incomplete_rollbacks ==
    /\ variant = "FortCore"
    /\ Scheduled("resume_incomplete_rollbacks", None, 0 - 1)
    /\ Commit(resume_incomplete_rollbacks_fn(
                 task_done(Cur, Task("resume_incomplete_rollbacks", None, 0 - 1))),
              "resume_incomplete_rollbacks", None)

\* the wall clock moves on by the cooldown: every kit's cooldown has elapsed.
\* The teleport scheduled (delay 1 tick) when a cooldown began has run by then.
time_passes ==
    /\ variant = "FortCore"
    /\ \A t \in OneShots : t.fn = "teleport_to_match" => oneshots[t] = 0
    /\ \E k \in DOMAIN teleport_cooldown : teleport_cooldown[k] < COOLDOWN_SECONDS
    /\ Commit([Cur EXCEPT !.teleport_cooldown =
                  [k \in DOMAIN @ |-> COOLDOWN_SECONDS]],
              "time_passes", None)

\* the wall clock moves on by one second
second_passes ==
    /\ variant = "FortCore"
    /\ \A t \in OneShots : t.fn = "teleport_to_match" => oneshots[t] = 0
    /\ \E k \in DOMAIN teleport_cooldown : teleport_cooldown[k] < COOLDOWN_SECONDS
    /\ Commit([Cur EXCEPT !.teleport_cooldown =
                  [k \in DOMAIN @ |-> Min(@[k] + 1, COOLDOWN_SECONDS)]],
              "second_passes", None)

\* the answer to a menu sent by an earlier compass click (every click sends a
\* form; a player who is past the lobby has answered one of them)
late_kit_select(u, kit_index) ==
    /\ variant = "FortCore"
    /\ u \in online
    /\ StateOf(player_data, u) # "LOBBY"
    /\ Commit(handle_kit_select_fn(Cur, u, kit_index), "handle_kit_select", u)

\* RollbackManager: the plugin's leave handlers call start_rollback
RM_start(u) ==
    /\ variant = "RollbackManager"
    /\ u \in DOMAIN player_data
    /\ player_data[u].state \in {"MATCH", "ROLLBACK"}
    /\ Commit(RM_start_rollback(Cur, u, u \in online), "start_rollback", u)

\* RollbackManager: the plugin's match entry calls init_rollback
RM_enter_match(u) ==
    /\ variant = "RollbackManager"
    /\ u \in online
    /\ StateOf(player_data, u) = "LOBBY"
    /\ Commit(plugin_enter_match(Cur, u), "init_rollback", u)

\* RollbackManager: the plugin calls track_affected_area for a mutation the
\* player has recorded in the running match
RM_track(u, i) ==
    /\ variant = "RollbackManager"
    /\ StateOf(player_data, u) = "MATCH"
    /\ i \in 1..Len(logged[u])
    /\ LET a == logged[u][i]
       IN  Commit(RM_track_affected_area(Cur, u, <<a.x, a.y, a.z>>, a.block_type),
                  "track_affected_area", u)

\* the repeating flush task started by __init__
RM_flush_timer ==
    /\ variant = "RollbackManager"
    /\ Commit(RM_flush_all_buffers(Cur), "flush_all_buffers", None)

RM_rollback_task(t) ==
    /\ variant = "RollbackManager"
    /\ t \in repeating
    /\ Commit(RM_process_rollback_batch(Cur, t.uid), "process_rollback_batch", t.uid)

RM_resume_rollbacks ==
    /\ variant = "RollbackManager"
    /\ Scheduled("resume_incomplete_rollbacks", None, 0 - 1)
    /\ Commit(RM_resume_rollbacks_fn(
                 task_done(Cur, Task("resume_incomplete_rollbacks", None, 0 - 1))),
              "resume_incomplete_rollbacks", None)

\* the server stops: the plugin is disabled, nothing runs until it starts again
Up == lastOp.op \notin {"on_disable", "shutdown"}

on_disable ==
    /\ variant = "FortCore"
    /\ Up
    /\ Commit(on_disable_fn(Cur), "on_disable", None)

on_enable ==
    /\ variant = "FortCore"
    /\ ~Up
    /\ Commit(new_instance(Cur), "on_enable", None)

RM_shutdown ==
    /\ variant = "RollbackManager"
    /\ Up
    /\ Commit(RM_shutdown_fn(Cur), "shutdown", None)

RM_restart ==
    /\ variant = "RollbackManager"
    /\ ~Up
    /\ Commit(new_instance(Cur), "on_enable", None)

\* the process is killed while a replay is in progress, and started again:
\* nothing is flushed, nothing is cancelled in an orderly way
crash ==
    /\ \E u \in Players : StateOf(player_data, u) = "ROLLBACK"
    /\ Commit(new_instance(Cur), "crash", None)

\* the rollback directory: from now on deleting the log raises (the file is
\* held open by another process, the directory became read-only)
unlink_fails(f) ==
    /\ f \notin undeletable
    /\ Commit([Cur EXCEPT !.undeletable = @ \cup {f}], "unlink_fails", None)

\* the rollback directory: the log can be deleted again
unlink_works(f) ==
    /\ f \in undeletable
    /\ Commit([Cur EXCEPT !.undeletable = @ \ {f}], "unlink_works", None)

----------------------------------------------------------------------------
(* Initial states *)

NoDict == [x \in {} |-> None]

\* the host: the configuration load_plugin_config read and the loaded worlds
InitHost(cfg, wl) ==
    /\ plugin_config = cfg
    /\ worlds = wl
    /\ since_join = [k \in {cfg.kits[i].name : i \in 1..Len(cfg.kits)} |->
                        COOLDOWN_SECONDS]

InitPlugin(v, pd, fs, w, onl, scan, tch, lg) ==
    /\ variant = v
    /\ player_data = pd
    /\ files = fs
    /\ world = w
    /\ rollback_tasks = NoDict
    /\ repeating = {}
    /\ oneshots = [t \in OneShots |->
                     IF scan /\ t.fn = "resume_incomplete_rollbacks" THEN 1 ELSE 0]
    /\ online = onl
    /\ forms = {}
    /\ teleport_cooldown = NoDict
    /\ touched = tch
    /\ logged = lg
    /\ resumed = {}
    /\ applied = [u \in Players |-> <<>>]
    /\ after_death = [u \in Players |-> 0]
    /\ backlog = [u \in Players |-> 0]
    /\ invocations = [u \in Players |-> 0]
    /\ raised = FALSE
    /\ undeletable = {}
    /\ leftover = {}
    /\ player_calls = [u \in Players |-> <<>>]
    /\ lastOp = [op |-> "on_enable", uid |-> None]

\* the default configuration, its world loaded
InitState(v, pd, fs, w, onl, scan, tch, lg) ==
    /\ InitHost(DefaultConfig, LoadedWorlds)
    /\ InitPlugin(v, pd, fs, w, onl, scan, tch, lg)

NoLogs == [u \in Players |-> <<>>]

----------------------------------------------------------------------------
(* A match of N mutations, in closed form: the player works round the arena, *)
(* breaking the block of a cell when there is one and placing dirt when      *)
(* there is none; every cell starts as stone.                                *)

MaxBacklog == 5

PatternAction(i) ==
    LET c == Coord(((i - 1) % NumCoords) + 1)
        k == ((i - 1) \div NumCoords) + 1
    IN  IF k % 2 = 1
        THEN RollbackAction("break", c, IF k = 1 THEN STONE ELSE DIRT)
        ELSE RollbackAction("place", c, DIRT)

PatternLog(n) == [i \in 1..n |-> PatternAction(i)]

PatternPristine == [c \in Coords |-> STONE]

PatternWorld(n) ==
    [c \in Coords |->
        LET j == CHOOSE x \in 1..NumCoords : Coord(x) = c
            k == IF n < j THEN 0 ELSE ((n - j) \div NumCoords) + 1
        IN  IF k = 0 THEN STONE ELSE IF k % 2 = 1 THEN AIR ELSE DIRT]

PatternTouched(n) == {Coord(j) : j \in 1..Min(n, NumCoords)}

\* small backlogs for both engines; for RollbackManager, whose batch size
\* depends on the backlog, also the backlogs around every threshold of
\* calculate_batch_params
BacklogSizes(v) ==
    IF v = "FortCore"
    THEN 0..MaxBacklog
    ELSE (0..MaxBacklog)
         \cup UNION {{l - 1, l, l + 1} : l \in {SMALL_LIMIT, MEDIUM_LIMIT, LARGE_LIMIT}}
         \cup {LARGE_LIMIT + HUGE_BATCH}

\* the player is in a match with n mutations recorded, the last one unflushed
LiveData(v, n) ==
    LET buffer == IF n = 0 THEN <<>> ELSE <<PatternAction(n)>>
    IN  IF v = "FortCore"
        THEN [NewPlayerData EXCEPT
                !.state = "MATCH", !.csv_path = PlayerName[1],
                !.current_kit = Kits[1].name, !.current_map = Maps[1].name,
                !.rollback_buffer = buffer]
        ELSE [RM_NewPlayerData EXCEPT
                !.state = "MATCH", !.csv_path = PlayerName[1],
                !.current_category = "category", !.current_match = "match",
                !.rollback_buffer = buffer]

\* the player has just been teleported into a match
InMatch(u) ==
    [NewPlayerData EXCEPT
        !.state = "MATCH", !.csv_path = u,
        !.current_kit = Kits[1].name, !.current_map = Maps[1].name]

LiveFile(n) == <<HeaderRow>> \o RowsOf(PatternLog(IF n = 0 THEN 0 ELSE n - 1))
CrashFile(n) == <<HeaderRow>> \o RowsOf(PatternLog(n))

----------------------------------------------------------------------------
(* SpecReplay: the rollback engine on one player.                           *)
(*  - FortCore, from a fresh start: the connected player plays matches and  *)
(*    leaves them by death, /out or disconnect;                             *)
(*  - either engine, live: the player is in a match of N recorded mutations *)
(*    and leaves it;                                                        *)
(*  - either engine, restart: nothing in memory, the log of N mutations on  *)
(*    disk, the player not connected, the startup scan pending.             *)

Solo == PlayerName[1]

InitReplay ==
    \/ /\ pristine \in [Coords -> NaturalBlocks]
       /\ InitState("FortCore", NoDict, NoDict, pristine, {Solo}, FALSE, {}, NoLogs)
    \/ \E v \in {"FortCore", "RollbackManager"} : \E n \in BacklogSizes(v) :
          /\ pristine = PatternPristine
          /\ \/ InitState(v, DictSet(NoDict, Solo, LiveData(v, n)),
                          DictSet(NoDict, Solo, LiveFile(n)),
                          PatternWorld(n), {Solo}, FALSE, PatternTouched(n),
                          [NoLogs EXCEPT ![Solo] = PatternLog(n)])
             \/ InitState(v, NoDict, DictSet(NoDict, Solo, CrashFile(n)),
                          PatternWorld(n), {}, TRUE, PatternTouched(n),
                          [NoLogs EXCEPT ![Solo] = PatternLog(n)])

\* every action is enabled under its own engine only
NextReplay ==
    \/ on_player_interact(Solo)
    \/ \E k \in KitIndexes : handle_kit_select(Solo, k)
    \/ \E k \in KitIndexes : teleport_to_match(Solo, k)
    \/ \E c \in Coords : Len(logged[Solo]) < MaxRecords /\ on_block_break(Solo, c)
    \/ \E c \in Coords, b \in PlaceableBlocks :
          Len(logged[Solo]) < MaxRecords /\ on_block_place(Solo, c, b)
    \/ flush_timer
    \/ (StateOf(player_data, Solo) = "MATCH" /\ on_player_death(Solo))
    \/ on_player_quit(Solo)
    \/ on_command(Solo)
    \/ delayed_start_rollback(Solo)
    \/ \E t \in repeating : rollback_task(t)
    \/ resume_incomplete_rollbacks
    \/ time_passes
    \/ RM_start(Solo)
    \/ RM_flush_timer
    \/ \E t \in repeating : RM_rollback_task(t)
    \/ RM_resume_rollbacks

SpecReplay == InitReplay /\ [][NextReplay]_vars

----------------------------------------------------------------------------
(* SpecQuit: one FortCore player in a match, nothing recorded yet.  The      *)
(* player records at most QuitRecords mutations and then dies or             *)
(* disconnects.  The host scheduler runs every task it holds: a pending      *)
(* one-shot after its delay, a repeating task at every period.               *)

QuitRecords == 2

InitQuit ==
    /\ pristine \in [Coords -> NaturalBlocks]
    /\ InitState("FortCore", DictSet(NoDict, Solo, InMatch(Solo)),
                 DictSet(NoDict, Solo, <<HeaderRow>>), pristine, {Solo}, FALSE, {},
                 NoLogs)

NextQuit ==
    \/ \E c \in Coords : Len(logged[Solo]) < QuitRecords /\ on_block_break(Solo, c)
    \/ \E c \in Coords, b \in PlaceableBlocks :
          Len(logged[Solo]) < QuitRecords /\ on_block_place(Solo, c, b)
    \/ flush_timer
    \/ (StateOf(player_data, Solo) = "MATCH" /\ on_player_death(Solo))
    \/ on_player_quit(Solo)
    \/ delayed_start_rollback(Solo)
    \/ \E t \in repeating : rollback_task(t)

\* the repeating task of a player in ROLLBACK runs once more: the step of
\* rollback_task that counts one more invocation for that player
BatchRuns ==
    \E t \in repeating :
        /\ StateOf(player_data, t.uid) = "ROLLBACK"
        /\ invocations' = [invocations EXCEPT ![t.uid] = @ + 1]

SpecQuit ==
    /\ InitQuit
    /\ [][NextQuit]_vars
    /\ WF_invocations(BatchRuns)

----------------------------------------------------------------------------
(* Spec: the FortCore plugin from on_enable, with every handler, for one    *)
(* player.  Nobody is connected yet, the startup scan is pending, and the   *)
(* rollbacks directory holds what the previous session left: nothing, or    *)
(* the log of the player's interrupted match.                               *)

Owner == PlayerName[1]

CrashSizes == 0..1

\* under Spec a match records at most LifeRecords mutations, all of them in
\* the first LifeCells cells of the arena
LifeRecords == 1
LifeCells == 1
LifeCoords == {Coord(i) : i \in 1..LifeCells}

Init ==
    /\ pristine = PatternPristine
    /\ \/ InitState("FortCore", NoDict, NoDict, pristine, {}, TRUE, {}, NoLogs)
       \/ \E n \in CrashSizes :
             InitState("FortCore", NoDict, DictSet(NoDict, Owner, CrashFile(n)),
                       PatternWorld(n), {}, TRUE, PatternTouched(n),
                       [NoLogs EXCEPT ![Owner] = PatternLog(n)])

Next ==
    \/ on_player_join(Owner)
    \/ handle_join_sequence(Owner)
    \/ on_player_interact(Owner)
    \/ \E k \in KitIndexes : handle_kit_select(Owner, k)
    \/ \E k \in KitIndexes : teleport_to_match(Owner, k)
    \/ \E c \in LifeCoords :
          Len(logged[Owner]) < LifeRecords /\ on_block_break(Owner, c)
    \/ \E c \in LifeCoords, b \in PlaceableBlocks :
          Len(logged[Owner]) < LifeRecords /\ on_block_place(Owner, c, b)
    \/ flush_timer
    \/ on_player_death(Owner)
    \/ on_player_quit(Owner)
    \/ on_command(Owner)
    \/ delayed_start_rollback(Owner)
    \/ delayed_reset_player(Owner)
    \/ \E t \in repeating : rollback_task(t)
    \/ resume_incomplete_rollbacks
    \/ time_passes

Spec == Init /\ [][Next]_vars

----------------------------------------------------------------------------
(* SpecArena: two players in matches on the same arena.  Both are connected *)
(* and in MATCH with nothing recorded yet; each records at most             *)
(* MatchRecords mutations, in the first SharedCells cells, and leaves by    *)
(* /out, by disconnecting or by dying.                                      *)

MatchRecords == 2
SharedCells == 1
SharedCoords == {Coord(i) : i \in 1..SharedCells}
CanRecord(u) == Len(logged[u]) < MatchRecords

InitArena ==
    /\ pristine \in [Coords -> NaturalBlocks]
    /\ InitState("FortCore", [u \in Players |-> InMatch(u)],
                 [u \in Players |-> <<HeaderRow>>], pristine, Players, FALSE, {},
                 NoLogs)

NextArena ==
    \/ \E u \in Players, c \in SharedCoords : CanRecord(u) /\ on_block_break(u, c)
    \/ \E u \in Players, c \in SharedCoords, b \in PlaceableBlocks :
          CanRecord(u) /\ on_block_place(u, c, b)
    \/ flush_timer
    \/ \E u \in Players : StateOf(player_data, u) = "MATCH" /\ on_player_death(u)
    \/ \E u \in Players : on_player_quit(u)
    \/ \E u \in Players : on_command(u)
    \/ \E u \in Players : delayed_start_rollback(u)
    \/ \E t \in repeating : rollback_task(t)

SpecArena == InitArena /\ [][NextArena]_vars

----------------------------------------------------------------------------
(* SpecLobby: the capacity gate.  config.yml gives the kit room for          *)
(* KitCapacity players; every player is connected and in the lobby.  Players *)
(* open the menu, select the kit, are teleported, and leave their match by   *)
(* /out or by dying.                                                         *)

KitCapacity == 1

SmallConfig ==
    [kits |-> << [name |-> Kits[1].name, maxPlayers |-> KitCapacity] >>,
     maps |-> Maps]

InitLobby ==
    /\ pristine = PatternPristine
    /\ InitHost(SmallConfig, LoadedWorlds)
    /\ InitPlugin("FortCore", [u \in Players |-> NewPlayerData], NoDict, pristine,
                  Players, FALSE, {}, NoLogs)

NextLobby ==
    \/ \E u \in Players : on_player_interact(u)
    \/ \E u \in Players, k \in KitIndexes : handle_kit_select(u, k)
    \/ \E u \in Players, k \in KitIndexes : teleport_to_match(u, k)
    \/ \E u \in Players : on_command(u)
    \/ \E u \in Players : StateOf(player_data, u) = "MATCH" /\ on_player_death(u)
    \/ \E u \in Players : delayed_start_rollback(u)
    \/ time_passes

SpecLobby == InitLobby /\ [][NextLobby]_vars

----------------------------------------------------------------------------
(* SpecMenu: the kit menu.  config.yml lists three kits and two maps, so the *)
(* third button of the menu has no map; each kit has room for KitCapacity    *)
(* players.  Every player is connected and in the lobby; players open the    *)
(* menu, press any button, are teleported, leave by /out or by dying, and    *)
(* the clock ticks in seconds.                                               *)

MenuConfig ==
    [kits |-> << [name |-> "Diamond SMP", maxPlayers |-> KitCapacity],
                 [name |-> "Iron SMP", maxPlayers |-> KitCapacity],
                 [name |-> "Stone SMP", maxPlayers |-> KitCapacity] >>,
     maps |-> << [name |-> "Diamond Arena", world |-> "world"],
                 [name |-> "Iron Arena", world |-> "world"] >>]

InitMenu ==
    /\ pristine = PatternPristine
    /\ InitHost(MenuConfig, LoadedWorlds)
    /\ InitPlugin("FortCore", [u \in Players |-> NewPlayerData], NoDict, pristine,
                  Players, FALSE, {}, NoLogs)

NextMenu ==
    \/ \E u \in Players : on_player_interact(u)
    \/ \E u \in Players, k \in MenuIndexes : handle_kit_select(u, k)
    \/ \E u \in Players, k \in MenuIndexes : late_kit_select(u, k)
    \/ \E u \in Players, k \in MenuIndexes : teleport_to_match(u, k)
    \/ \E u \in Players : on_command(u)
    \/ \E u \in Players : StateOf(player_data, u) = "MATCH" /\ on_player_death(u)
    \/ \E u \in Players : delayed_start_rollback(u)
    \/ second_passes

SpecMenu == InitMenu /\ [][NextMenu]_vars

----------------------------------------------------------------------------
(* SpecBuffer: a long stretch of a match between two timer flushes.  One     *)
(* FortCore player is in MATCH with MaxBuffered - 2 or MaxBuffered - 1       *)
(* mutations recorded since the last flush, all of them still in the buffer; *)
(* the player records up to MaxBuffered and leaves by /out, disconnect or    *)
(* death.                                                                    *)

MaxBuffered == 51

Buffering(n) == [InMatch(Solo) EXCEPT !.rollback_buffer = PatternLog(n)]

InitBuffer ==
    /\ pristine = PatternPristine
    /\ \E n \in (MaxBuffered - 2)..(MaxBuffered - 1) :
          InitState("FortCore", DictSet(NoDict, Solo, Buffering(n)),
                    DictSet(NoDict, Solo, <<HeaderRow>>), PatternWorld(n), {Solo},
                    FALSE, PatternTouched(n), [NoLogs EXCEPT ![Solo] = PatternLog(n)])

NextBuffer ==
    \/ \E c \in Coords : Len(logged[Solo]) < MaxBuffered /\ on_block_break(Solo, c)
    \/ \E c \in Coords, b \in PlaceableBlocks :
          Len(logged[Solo]) < MaxBuffered /\ on_block_place(Solo, c, b)
    \/ flush_timer
    \/ (StateOf(player_data, Solo) = "MATCH" /\ on_player_death(Solo))
    \/ on_player_quit(Solo)
    \/ on_command(Solo)
    \/ delayed_start_rollback(Solo)
    \/ \E t \in repeating : rollback_task(t)

SpecBuffer == InitBuffer /\ [][NextBuffer]_vars

----------------------------------------------------------------------------
(* SpecCorrupt: a restart over a damaged log.  The log of a match of up to   *)
(* CorruptLen mutations is on disk, any of its rows damaged: a coordinate    *)
(* that is not a number, a line cut short after y, a coordinate outside the  *)
(* arena.  Either engine; for FortCore the world of the arena is loaded or   *)
(* no world is.  The startup scan is pending and the batch callback runs     *)
(* again and again while the player is in ROLLBACK.                          *)

CorruptLen == 3

BadCoordinate(row) == [row EXCEPT ![3] = "1O"]
CutShort(row) == SubSeq(row, 1, 4)
Outside(row) == [row EXCEPT ![3] = str(Coord(1)[1] - 1)]

Damaged(row) == {row, BadCoordinate(row), CutShort(row), Outside(row)}

DamagedFiles(n) ==
    {<<HeaderRow>> \o rows :
        rows \in {r \in [1..n -> UNION {Damaged(CsvRow(PatternAction(i))) : i \in 1..n}] :
                     \A i \in 1..n : r[i] \in Damaged(CsvRow(PatternAction(i)))}}

InitCorrupt ==
    /\ pristine = PatternPristine
    /\ \E v \in {"FortCore", "RollbackManager"}, n \in 1..CorruptLen :
       \E f \in DamagedFiles(n) :
       \E wl \in IF v = "FortCore" THEN {LoadedWorlds, {}} ELSE {LoadedWorlds} :
          /\ InitHost(DefaultConfig, wl)
          /\ InitPlugin(v, NoDict, DictSet(NoDict, Solo, f), PatternWorld(n), {}, TRUE,
                        PatternTouched(n), [NoLogs EXCEPT ![Solo] = PatternLog(n)])

NextCorrupt ==
    \/ resume_incomplete_rollbacks
    \/ \E t \in repeating : rollback_task(t)
    \/ RM_resume_rollbacks
    \/ \E t \in repeating : RM_rollback_task(t)

SpecCorrupt == InitCorrupt /\ [][NextCorrupt]_vars /\ WF_invocations(BatchRuns)

----------------------------------------------------------------------------
(* SpecShutdown: the server is stopped and started again.  One player is in  *)
(* a match of up to MaxBacklog mutations recorded, the last one unflushed,   *)
(* under either engine; the player records more, dies or disconnects, the    *)
(* replay runs; at any point the plugin is disabled, and after the restart   *)
(* the player may connect again before or after the startup scan.            *)

ShutSizes == 0..2

InitShutdown ==
    /\ pristine = PatternPristine
    /\ \E v \in {"FortCore", "RollbackManager"}, n \in ShutSizes :
          InitState(v, DictSet(NoDict, Solo, LiveData(v, n)),
                    DictSet(NoDict, Solo, LiveFile(n)),
                    PatternWorld(n), {Solo}, FALSE, PatternTouched(n),
                    [NoLogs EXCEPT ![Solo] = PatternLog(n)])

\* nothing runs while the plugin is disabled
NextShutdown ==
    \/ (Up /\ on_player_join(Solo))
    \/ (Up /\ handle_join_sequence(Solo))
    \/ \E c \in Coords :
          Up /\ Len(logged[Solo]) < MaxRecords /\ on_block_break(Solo, c)
    \/ \E c \in Coords, b \in PlaceableBlocks :
          Up /\ Len(logged[Solo]) < MaxRecords /\ on_block_place(Solo, c, b)
    \/ (Up /\ flush_timer)
    \/ (Up /\ StateOf(player_data, Solo) = "MATCH" /\ on_player_death(Solo))
    \/ (Up /\ on_player_quit(Solo))
    \/ (Up /\ delayed_start_rollback(Solo))
    \/ \E t \in repeating : Up /\ rollback_task(t)
    \/ (Up /\ resume_incomplete_rollbacks)
    \/ on_disable
    \/ on_enable
    \/ (Up /\ RM_start(Solo))
    \/ (Up /\ RM_flush_timer)
    \/ \E t \in repeating : Up /\ RM_rollback_task(t)
    \/ (Up /\ RM_resume_rollbacks)
    \/ RM_shutdown
    \/ RM_restart

SpecShutdown == InitShutdown /\ [][NextShutdown]_vars

----------------------------------------------------------------------------
(* SpecRematch: one player, match after match.  The player is connected,    *)
(* in the lobby (FortCore) or in a match of RematchSizes mutations (either   *)
(* engine); the player enters matches, records up to RematchRecords          *)
(* mutations in each, and leaves by death, /out or disconnect; a death may   *)
(* come in any state, so that a rollback may be left unfinished when the     *)
(* next match begins.                                                        *)

RematchRecords == 1
RematchSizes == 0..RematchRecords

InitRematch ==
    \/ /\ pristine = PatternPristine
       /\ InitState("FortCore", NoDict, NoDict, pristine, {Solo}, FALSE, {}, NoLogs)
    \/ \E v \in {"FortCore", "RollbackManager"}, n \in RematchSizes :
          /\ pristine = PatternPristine
          /\ InitState(v, DictSet(NoDict, Solo, LiveData(v, n)),
                       DictSet(NoDict, Solo, LiveFile(n)),
                       PatternWorld(n), {Solo}, FALSE, PatternTouched(n),
                       [NoLogs EXCEPT ![Solo] = PatternLog(n)])

NextRematch ==
    \/ on_player_join(Solo)
    \/ handle_join_sequence(Solo)
    \/ on_player_interact(Solo)
    \/ \E k \in KitIndexes : handle_kit_select(Solo, k)
    \/ \E k \in KitIndexes : teleport_to_match(Solo, k)
    \/ \E c \in LifeCoords :
          Len(logged[Solo]) < RematchRecords /\ on_block_break(Solo, c)
    \/ \E c \in LifeCoords, b \in PlaceableBlocks :
          Len(logged[Solo]) < RematchRecords /\ on_block_place(Solo, c, b)
    \/ flush_timer
    \/ on_player_death(Solo)
    \/ on_player_quit(Solo)
    \/ on_command(Solo)
    \/ delayed_start_rollback(Solo)
    \/ delayed_reset_player(Solo)
    \/ \E t \in repeating : rollback_task(t)
    \/ time_passes
    \/ RM_enter_match(Solo)
    \/ RM_start(Solo)
    \/ RM_flush_timer
    \/ \E t \in repeating : RM_rollback_task(t)

SpecRematch == InitRematch /\ [][NextRematch]_vars

----------------------------------------------------------------------------
(* SpecCrash: a replay interrupted by a crash.  One player is in a match of  *)
(* CrashBacklogs mutations under either engine and leaves it; at any point   *)
(* of the replay the process is killed and started again, any number of      *)
(* times; after a restart the startup scan runs and the replay starts over.  *)

CrashBacklogs(v) ==
    IF v = "FortCore" THEN 1..MaxBacklog ELSE (1..MaxBacklog) \cup {SMALL_BATCH + 1}

InitCrash ==
    /\ pristine = PatternPristine
    /\ \E v \in {"FortCore", "RollbackManager"} : \E n \in CrashBacklogs(v) :
          InitState(v, DictSet(NoDict, Solo, LiveData(v, n)),
                    DictSet(NoDict, Solo, LiveFile(n)),
                    PatternWorld(n), {Solo}, FALSE, PatternTouched(n),
                    [NoLogs EXCEPT ![Solo] = PatternLog(n)])

NextCrash ==
    \/ flush_timer
    \/ (StateOf(player_data, Solo) = "MATCH" /\ on_player_death(Solo))
    \/ on_player_quit(Solo)
    \/ delayed_start_rollback(Solo)
    \/ \E t \in repeating : rollback_task(t)
    \/ resume_incomplete_rollbacks
    \/ RM_start(Solo)
    \/ RM_flush_timer
    \/ \E t \in repeating : RM_rollback_task(t)
    \/ RM_resume_rollbacks
    \/ crash

SpecCrash == InitCrash /\ [][NextCrash]_vars

----------------------------------------------------------------------------
(* SpecLeftover: a log that cannot be deleted.  One player is in a match of  *)
(* LeftoverSizes mutations under either engine, leaves it, comes back,       *)
(* enters other matches; the server is stopped and started again; at any     *)
(* point deleting the player's log begins to fail, or works again.           *)

LeftoverSizes == 1..2

InitLeftover ==
    /\ pristine = PatternPristine
    /\ \E v \in {"FortCore", "RollbackManager"}, n \in LeftoverSizes :
          InitState(v, DictSet(NoDict, Solo, LiveData(v, n)),
                    DictSet(NoDict, Solo, LiveFile(n)),
                    PatternWorld(n), {Solo}, FALSE, PatternTouched(n),
                    [NoLogs EXCEPT ![Solo] = PatternLog(n)])

NextLeftover ==
    \/ (Up /\ on_player_join(Solo))
    \/ (Up /\ handle_join_sequence(Solo))
    \/ (Up /\ on_player_interact(Solo))
    \/ \E k \in KitIndexes : Up /\ handle_kit_select(Solo, k)
    \/ \E k \in KitIndexes : Up /\ teleport_to_match(Solo, k)
    \/ (Up /\ time_passes)
    \/ (Up /\ StateOf(player_data, Solo) = "MATCH" /\ on_player_death(Solo))
    \/ (Up /\ on_player_quit(Solo))
    \/ (Up /\ delayed_start_rollback(Solo))
    \/ \E t \in repeating : Up /\ rollback_task(t)
    \/ (Up /\ resume_incomplete_rollbacks)
    \/ on_disable
    \/ on_enable
    \/ (Up /\ RM_start(Solo))
    \/ \E t \in repeating : Up /\ RM_rollback_task(t)
    \/ (Up /\ RM_resume_rollbacks)
    \/ RM_shutdown
    \/ RM_restart
    \/ (Up /\ unlink_fails(Solo))
    \/ (Up /\ unlink_works(Solo))

SpecLeftover == InitLeftover /\ [][NextLeftover]_vars

----------------------------------------------------------------------------
(* SpecShared: RollbackManager with two players.  The first is in the match  *)
(* "match" with up to SharedRecords mutations recorded; the second is in the *)
(* same match or in another one, with as many of its own, made after those   *)
(* of the first.  Each is connected or not; each leaves, which calls         *)
(* start_rollback, and may enter "match" again.                              *)

SharedRecords == 2
Second == PlayerName[2]

\* a participant of match m whose rows are those of log, the last one unflushed
Participant(u, m, log) ==
    [RM_NewPlayerData EXCEPT
        !.state = "MATCH", !.csv_path = u,
        !.current_category = "category", !.current_match = m,
        !.rollback_buffer = IF log = <<>> THEN <<>> ELSE <<log[Len(log)]>>]

ParticipantFile(log) ==
    <<HeaderRow>> \o RowsOf(IF log = <<>> THEN <<>> ELSE SubSeq(log, 1, Len(log) - 1))

InitShared ==
    /\ pristine = PatternPristine
    /\ \E n1 \in 0..SharedRecords, n2 \in 0..SharedRecords :
       \E m \in {"match", "other"}, onl \in SUBSET {Solo, Second} :
          LET log1 == PatternLog(n1)
              log2 == SubSeq(PatternLog(n1 + n2), n1 + 1, n1 + n2)
          IN  InitState("RollbackManager",
                        [u \in {Solo, Second} |->
                            IF u = Solo THEN Participant(u, "match", log1)
                            ELSE Participant(u, m, log2)],
                        [u \in {Solo, Second} |->
                            ParticipantFile(IF u = Solo THEN log1 ELSE log2)],
                        PatternWorld(n1 + n2), onl, FALSE, PatternTouched(n1 + n2),
                        [NoLogs EXCEPT ![Solo] = log1, ![Second] = log2])

NextShared ==
    \/ \E u \in {Solo, Second} : RM_start(u)
    \/ \E u \in {Solo, Second} : RM_enter_match(u)
    \/ RM_flush_timer
    \/ \E t \in repeating : RM_rollback_task(t)

SpecShared == InitShared /\ [][NextShared]_vars

----------------------------------------------------------------------------
(* SpecCleanup: RollbackManager with the affected area in use.  One player   *)
(* is in a match with up to CleanupRecords mutations recorded; the plugin     *)
(* calls track_affected_area for recorded mutations, the player leaves, and   *)
(* the replay runs.                                                           *)

CleanupRecords == 3

InitCleanup ==
    /\ pristine = PatternPristine
    /\ \E n \in 0..CleanupRecords, onl \in SUBSET {Solo} :
          InitState("RollbackManager",
                    DictSet(NoDict, Solo, LiveData("RollbackManager", n)),
                    DictSet(NoDict, Solo, LiveFile(n)),
                    PatternWorld(n), onl, FALSE, PatternTouched(n),
                    [NoLogs EXCEPT ![Solo] = PatternLog(n)])

NextCleanup ==
    \/ \E i \in 1..CleanupRecords : RM_track(Solo, i)
    \/ RM_start(Solo)
    \/ RM_enter_match(Solo)
    \/ RM_flush_timer
    \/ \E t \in repeating : RM_rollback_task(t)

SpecCleanup == InitCleanup /\ [][NextCleanup]_vars

----------------------------------------------------------------------------
(* Claims checked under SpecReplay *)

\* the rows csv.DictReader gives back for a sequence of recorded mutations
LoggedRows(u) == [i \in 1..Len(logged[u]) |-> DictRow(HeaderRow, CsvRow(logged[u][i]))]

CoordOf(a) == <<a.x, a.y, a.z>>

DistinctCoords(log) ==
    \A i, j \in 1..Len(log) : CoordOf(log[i]) = CoordOf(log[j]) => i = j

\* the player has left the match and the replay of its log has run to the end:
\* the player is in neither MATCH nor ROLLBACK and its log file is gone
ReplayComplete(u) ==
    /\ StateOf(player_data, u) \in {"LOBBY", "TELEPORTING"}
    /\ u \notin DOMAIN files

TasksOf(u) == {t \in repeating : t.uid = u}

\* C1: round trip. After the full reverse replay of a match whose recorded
\* BREAK/PLACE events are at distinct coordinates, every touched coordinate
\* holds its pre-match type: the recorded original type for a BREAK, air for
\* a PLACE.
C1_RoundTrip ==
    \A u \in Players :
        (ReplayComplete(u) /\ DistinctCoords(logged[u])) =>
            \A i \in 1..Len(logged[u]) :
                LET a == logged[u][i]
                IN  /\ world[CoordOf(a)] =
                          (IF a.action_type = "break" THEN a.block_type ELSE AIR)
                    /\ world[CoordOf(a)] = pristine[CoordOf(a)]

C1_Witness ==
    /\ ReplayComplete(Solo)
    /\ lastOp = [op |-> "process_rollback_batch", uid |-> Solo]
    /\ Len(logged[Solo]) = 2
    /\ DistinctCoords(logged[Solo])
    /\ logged[Solo][1].action_type = "break"
    /\ logged[Solo][2].action_type = "place"
    /\ Len(applied[Solo]) = 2

\* C2: LIFO. At every point of a replay the rows reverted so far, followed by
\* the rows still queued, are the logged records in exact reverse order, over
\* all batches; so overlapping edits of one coordinate resolve to the type
\* the coordinate had before the first of them (BREAK(stone)@P then
\* PLACE(dirt)@P ends with stone at P).
C2_ReverseOrder ==
    \A u \in Players :
        /\ StateOf(player_data, u) = "ROLLBACK" =>
              applied[u] \o PendingOf(player_data, u) = Reverse(LoggedRows(u))
        /\ ReplayComplete(u) =>
              /\ applied[u] = Reverse(LoggedRows(u))
              /\ \A i \in 1..Len(logged[u]) :
                    world[CoordOf(logged[u][i])] = pristine[CoordOf(logged[u][i])]

C2_Witness ==
    /\ ReplayComplete(Solo)
    /\ logged[Solo] = << RollbackAction("break", Coord(1), STONE),
                         RollbackAction("place", Coord(1), DIRT) >>
    /\ Len(applied[Solo]) = 2
    /\ applied[Solo][1]["action"] = "place"
    /\ applied[Solo][2]["action"] = "break"
    /\ world[Coord(1)] = STONE

\* C4: a start_rollback call for a player already in ROLLBACK changes neither
\* the state, the replay queue, the log file, the registered task nor the
\* scheduled tasks, and the rows already reverted are not reverted again.
C4_DoubleTriggerNoOp ==
    [][\A u \in Players :
          (/\ lastOp' = [op |-> "start_rollback", uid |-> u]
           /\ StateOf(player_data, u) = "ROLLBACK")
          => /\ player_data' = player_data
             /\ files' = files
             /\ world' = world
             /\ rollback_tasks' = rollback_tasks
             /\ repeating' = repeating
             /\ applied' = applied
             /\ Cardinality(TasksOf(u)) = 1]_vars

C4_Witness ==
    /\ lastOp = [op |-> "start_rollback", uid |-> Solo]
    /\ StateOf(player_data, Solo) = "ROLLBACK"
    /\ invocations[Solo] = 1
    /\ Len(PendingOf(player_data, Solo)) = 1
    /\ Len(applied[Solo]) = BATCH_SIZE

\* C8: in FortCore a backlog of N >= 1 rows drains in exactly ceil(N/2) invocations of
\* process_rollback_batch, each taking two rows (the last one the rest), and
\* the invocation that empties the queue finishes the rollback; with N = 0
\* start_rollback finishes the rollback itself and schedules no task.
C8_DrainCount ==
    \A u \in Players : variant = "FortCore" =>
        /\ StateOf(player_data, u) = "ROLLBACK" =>
              /\ PendingOf(player_data, u) # <<>>
              /\ Len(PendingOf(player_data, u)) = backlog[u] - BATCH_SIZE * invocations[u]
              /\ Cardinality(TasksOf(u)) = 1
        /\ StateOf(player_data, u) # "ROLLBACK" =>
              /\ TasksOf(u) = {}
              /\ u \notin DOMAIN rollback_tasks
              /\ invocations[u] = (backlog[u] + BATCH_SIZE - 1) \div BATCH_SIZE

C8_Witness ==
    /\ ReplayComplete(Solo)
    /\ lastOp = [op |-> "process_rollback_batch", uid |-> Solo]
    /\ backlog[Solo] = 3
    /\ invocations[Solo] = 2
    /\ Len(applied[Solo]) = 3

\* the most rows one invocation of the batch callback may revert
BatchCeiling == IF variant = "FortCore" THEN BATCH_SIZE ELSE HUGE_BATCH

\* C7: one invocation of the repeating batch callback reverts at most the
\* batch ceiling (2 rows in FortCore, 60 in RollbackManager), so a backlog
\* larger than the ceiling is never emptied by one invocation; start_rollback
\* and the callers that trigger it revert no row themselves.
C7_BatchCeiling ==
    [][\A u \in Players :
          /\ lastOp'.op = "process_rollback_batch" =>
                /\ Len(applied'[u]) - Len(applied[u]) <= BatchCeiling
                /\ Len(PendingOf(player_data, u)) > BatchCeiling =>
                      /\ PendingOf(player_data', u) # <<>>
                      /\ StateOf(player_data', u) = "ROLLBACK"
          /\ lastOp'.op \in {"start_rollback", "on_player_quit", "on_command",
                             "on_player_death", "resume_incomplete_rollbacks"} =>
                /\ applied'[u] = applied[u]
                /\ world' = world]_vars

C7_Witness ==
    /\ variant = "RollbackManager"
    /\ lastOp = [op |-> "process_rollback_batch", uid |-> Solo]
    /\ backlog[Solo] = LARGE_LIMIT + HUGE_BATCH
    /\ invocations[Solo] = 1
    /\ Len(applied[Solo]) = HUGE_BATCH
    /\ Len(PendingOf(player_data, Solo)) = LARGE_LIMIT

\* the live state of player u with the lines of its log file all flushed
LiveWith(u) ==
    [Cur EXCEPT !.player_data =
        DictSet(@, u,
                IF variant = "FortCore"
                THEN [NewPlayerData EXCEPT !.state = "MATCH", !.csv_path = u]
                ELSE [RM_NewPlayerData EXCEPT !.state = "MATCH", !.csv_path = u])]

LiveStart(u) ==
    IF variant = "FortCore" THEN start_rollback(LiveWith(u), u)
    ELSE RM_start_rollback(LiveWith(u), u, FALSE)

C12_FlushBeforeReplay ==
    [][\A u \in Players :
          /\ (/\ variant = "FortCore"
              /\ StateOf(player_data, u) = "MATCH"
              /\ lastOp'.uid = u
              /\ lastOp'.op \in {"start_rollback", "on_player_quit", "on_command"})
             => /\ BufferOf(player_data', u) = <<>>
                /\ logged[u] # <<>> =>
                      /\ StateOf(player_data', u) = "ROLLBACK"
                      /\ u \in DOMAIN files'
                      /\ files'[u] = <<HeaderRow>> \o RowsOf(logged[u])
                      /\ PendingOf(player_data', u) = Reverse(LoggedRows(u))
                      /\ Len(PendingOf(player_data', u)) = Len(logged[u])
                /\ logged[u] = <<>> =>
                      /\ StateOf(player_data', u) = "LOBBY"
                      /\ PendingOf(player_data', u) = <<>>
          /\ (/\ variant = "FortCore"
              /\ StateOf(player_data, u) = "MATCH"
              /\ Scheduled("start_rollback", u, 0 - 1)
              /\ lastOp'.uid = u
              /\ lastOp'.op \in {"on_block_break", "on_block_place"})
             => /\ Len(logged'[u]) = Len(logged[u]) + 1
                /\ BufferOf(player_data', u) =
                      Append(BufferOf(player_data, u), logged'[u][Len(logged'[u])])
                /\ after_death'[u] = after_death[u] + 1]_vars

C12_Witness ==
    /\ variant = "FortCore"
    /\ lastOp = [op |-> "start_rollback", uid |-> Solo]
    /\ StateOf(player_data, Solo) = "ROLLBACK"
    /\ invocations[Solo] = 0
    /\ after_death[Solo] >= 1
    /\ Len(logged[Solo]) >= 2
    /\ PendingOf(player_data, Solo) = Reverse(LoggedRows(Solo))

\* C16: a block-break or block-place event of a player in MATCH appends
\* exactly one record, of that event, to the player's buffer; in any other
\* state it changes neither the buffer nor the state; in no state does it
\* write to a log file or change the replay queue.
C16_RecordOnlyInMatch ==
    [][\A u \in Players :
          (/\ variant = "FortCore"
           /\ lastOp'.uid = u
           /\ lastOp'.op \in {"on_block_break", "on_block_place"})
          => LET old == BufferOf(player_data, u)
                 new == BufferOf(player_data', u)
             IN  /\ files' = files
                 /\ StateOf(player_data', u) = StateOf(player_data, u)
                 /\ PendingOf(player_data', u) = PendingOf(player_data, u)
                 /\ \A v \in Players \ {u} :
                       BufferOf(player_data', v) = BufferOf(player_data, v)
                 /\ StateOf(player_data, u) = "MATCH" =>
                       /\ Len(new) = Len(old) + 1
                       /\ SubSeq(new, 1, Len(old)) = old
                       /\ new[Len(new)].action_type =
                             (IF lastOp'.op = "on_block_break" THEN "break" ELSE "place")
                       /\ world'[CoordOf(new[Len(new)])] # world[CoordOf(new[Len(new)])]
                 /\ StateOf(player_data, u) # "MATCH" =>
                       /\ new = old
                       /\ logged' = logged]_vars

C16_Witness ==
    /\ variant = "FortCore"
    /\ lastOp = [op |-> "on_block_place", uid |-> Solo]
    /\ StateOf(player_data, Solo) = "MATCH"
    /\ Len(BufferOf(player_data, Solo)) = 2
    /\ BufferOf(player_data, Solo)[1].action_type = "break"
    /\ BufferOf(player_data, Solo)[2].action_type = "place"
    /\ files[Solo] = <<HeaderRow>>

\* the player disconnected from a match and its rollback is running
QuitRollback(u) ==
    /\ variant = "FortCore"
    /\ lastOp = [op |-> "on_player_quit", uid |-> u]
    /\ StateOf(player_data, u) = "ROLLBACK"

\* the replay for the disconnected player has run to the end
OfflineDone(u) ==
    /\ u \notin online
    /\ u \in DOMAIN player_data
    /\ player_data[u].state = "LOBBY"
    /\ player_data[u].pending_rollback_actions = <<>>
    /\ u \notin DOMAIN files
    /\ TasksOf(u) = {}
    /\ applied[u] = Reverse(LoggedRows(u))

\* C11: when a player disconnects while in MATCH the buffer is flushed to the
\* log, the player's record is kept, and the replay of every logged record
\* is queued in reverse (with nothing logged the rollback finishes at once);
\* the replay then runs to completion while the player is offline: the log
\* file is deleted and the player's state ends as LOBBY.
C11_QuitReplays ==
    /\ [][\A u \in Players :
            (/\ variant = "FortCore"
             /\ lastOp' = [op |-> "on_player_quit", uid |-> u]
             /\ StateOf(player_data, u) = "MATCH")
            => /\ u \in DOMAIN player_data'
               /\ u \notin online'
               /\ BufferOf(player_data', u) = <<>>
               /\ world' = world
               /\ logged[u] # <<>> =>
                     /\ StateOf(player_data', u) = "ROLLBACK"
                     /\ u \in DOMAIN files'
                     /\ DictReader(files'[u]) = LoggedRows(u)
                     /\ PendingOf(player_data', u) = Reverse(LoggedRows(u))
               /\ logged[u] = <<>> =>
                     /\ StateOf(player_data', u) = "LOBBY"
                     /\ u \notin DOMAIN files']_vars
    /\ \A u \in Players : QuitRollback(u) ~> OfflineDone(u)

C11_Witness ==
    /\ OfflineDone(Solo)
    /\ Solo \notin resumed
    /\ lastOp = [op |-> "process_rollback_batch", uid |-> Solo]
    /\ logged[Solo] = << RollbackAction("break", Coord(1), STONE),
                         RollbackAction("place", Coord(2), DIRT) >>
    /\ applied[Solo][1]["action"] = "place"
    /\ applied[Solo][2]["action"] = "break"
    /\ world[Coord(2)] = AIR
    /\ world[Coord(1)] = STONE

----------------------------------------------------------------------------
(* Claims checked under SpecArena and Spec *)

\* every player has left its match and no rollback remains to run
AllRollbacksDone ==
    \A u \in Players :
        /\ StateOf(player_data, u) = "LOBBY"
        /\ PendingOf(player_data, u) = <<>>
        /\ TasksOf(u) = {}
        /\ u \notin DOMAIN files
        /\ ~Scheduled("start_rollback", u, 0 - 1)

\* C3: once every player who modified the arena has left its match and all
\* the rollbacks have completed, every coordinate any of them modified holds
\* its pre-match type, also a coordinate that two players modified and whose
\* rollbacks ran one after the other.
C3_ArenaRestored ==
    AllRollbacksDone => \A c \in touched : world[c] = pristine[c]

\* a rollback of player u is in flight: rows are still queued or its
\* repeating task is still scheduled
InFlight(u) == PendingOf(player_data, u) # <<>> \/ TasksOf(u) # {}

\* C5: while a player's rollback is in flight the player is in neither
\* TELEPORTING nor MATCH, whatever events occur.
C5_NoEntryDuringRollback ==
    \A u \in Players :
        InFlight(u) => StateOf(player_data, u) \notin {"TELEPORTING", "MATCH"}

\* C6: at most one repeating rollback task is scheduled per player, and every
\* scheduled rollback task is the one rollback_tasks registers for its player.
C6_SingleTask ==
    /\ \A u \in Players : Cardinality(TasksOf(u)) <= 1
    /\ \A t \in repeating :
          /\ t.uid \in DOMAIN rollback_tasks
          /\ rollback_tasks[t.uid] = t.id

\* the log file of u is one the startup scan owes a replay: it holds a record
\* and the scan has not run yet, or the scan began its replay
OwedReplay(u) ==
    /\ u \in DOMAIN files
    /\ Len(DictReader(files[u])) >= 1
    /\ (Scheduled("resume_incomplete_rollbacks", None, 0 - 1) \/ u \in resumed)

\* C10: a log file holding a record at startup is deleted only by the step
\* that completes the replay of all its records, whatever events occur in
\* the grace delay before the scan.
C10_StartupLogsReplayed ==
    [][\A u \in Players :
          (OwedReplay(u) /\ u \notin DOMAIN files') =>
              applied'[u] = Reverse(DictReader(files[u]))]_vars

\* C13: every rollback that started with a non-empty queue completes, whatever
\* player events interleave with it: the batch invocation that drains the
\* queue cancels and unregisters the repeating task, deletes the log file,
\* clears the buffer, the queue, the log handle and the match id, and sets
\* the state to LOBBY.
C13_DrainCompletes ==
    [][\A u \in Players :
          (/\ lastOp' = [op |-> "process_rollback_batch", uid |-> u]
           /\ PendingOf(player_data, u) # <<>>
           /\ PendingOf(player_data', u) = <<>>)
          => /\ {t \in repeating' : t.uid = u} = {}
             /\ u \notin DOMAIN rollback_tasks'
             /\ u \notin DOMAIN files'
             /\ player_data'[u].rollback_buffer = <<>>
             /\ player_data'[u].csv_path = None
             /\ player_data'[u].current_kit = None
             /\ player_data'[u].current_map = None
             /\ player_data'[u].state = "LOBBY"]_vars

\* the occupancy of the (one) configured kit: the players in MATCH with it
Occupancy(pd) == online_count(pd, plugin_config.kits[1].name)

\* C14: a kit selection by a player in the lobby when the kit's occupancy
\* (players in MATCH with the kit) equals maxPlayers is rejected and changes
\* no player's record, no cooldown, no file and schedules nothing; at
\* occupancy maxPlayers - 1 with the cooldown elapsed it is accepted (the
\* player is TELEPORTING and the teleport is scheduled), and the teleport
\* that then runs brings the occupancy to maxPlayers.
C14_CapacityGate ==
    [][\A u \in Players :
          LET max == plugin_config.kits[1].maxPlayers
          IN  /\ (/\ lastOp' = [op |-> "handle_kit_select", uid |-> u]
                  /\ StateOf(player_data, u) = "LOBBY"
                  /\ Occupancy(player_data) = max)
                 => /\ player_data' = player_data
                    /\ teleport_cooldown' = teleport_cooldown
                    /\ oneshots' = oneshots
                    /\ files' = files
                    /\ world' = world
              /\ (/\ lastOp' = [op |-> "handle_kit_select", uid |-> u]
                  /\ StateOf(player_data, u) = "LOBBY"
                  /\ Occupancy(player_data) = max - 1
                  /\ ~cooldown_active(Cur, plugin_config.kits[1].name))
                 => /\ StateOf(player_data', u) = "TELEPORTING"
                    /\ oneshots'[Task("teleport_to_match", u, 0)] =
                          oneshots[Task("teleport_to_match", u, 0)] + 1
                    /\ Occupancy(player_data') = max - 1
              /\ (/\ lastOp' = [op |-> "teleport_to_match", uid |-> u]
                  /\ StateOf(player_data, u) = "TELEPORTING"
                  /\ Occupancy(player_data) = max - 1)
                 => /\ StateOf(player_data', u) = "MATCH"
                    /\ Occupancy(player_data') = max]_vars

\* a selection was rejected for capacity alone: the kit is full by a player
\* accepted at maxPlayers - 1, and the cooldown has elapsed
C14_Witness ==
    /\ lastOp = [op |-> "handle_kit_select", uid |-> PlayerName[2]]
    /\ StateOf(player_data, PlayerName[2]) = "LOBBY"
    /\ StateOf(player_data, PlayerName[1]) = "MATCH"
    /\ Occupancy(player_data) = plugin_config.kits[1].maxPlayers
    /\ ~cooldown_active(Cur, plugin_config.kits[1].name)
    /\ \A t \in OneShots : oneshots[t] = 0

\* C15: the scheduled teleport callback takes its player out of TELEPORTING:
\* to MATCH when the teleport succeeds, back to LOBBY when the world lookup
\* or the teleport itself fails; no player is in TELEPORTING after its
\* callback has run.
C15_TeleportLeaves ==
    [][\A u \in Players :
          (/\ lastOp' = [op |-> "teleport_to_match", uid |-> u]
           /\ StateOf(player_data, u) = "TELEPORTING")
          => StateOf(player_data', u) \in {"MATCH", "LOBBY"}]_vars

\* C17: when recording a mutation would leave more than the threshold of 50
\* records in a player's buffer the buffer is flushed to the log, so after
\* any record operation the buffer holds at most 50 records.
C17_BufferBounded ==
    [][\A u \in Players :
          (lastOp'.uid = u /\ lastOp'.op \in {"on_block_break", "on_block_place"})
          => Len(BufferOf(player_data', u)) <= 50]_vars

----------------------------------------------------------------------------
(* Claims checked under SpecCorrupt *)

\* the rows the plugin itself can have written
Recorded ==
    {DictRow(HeaderRow, CsvRow(RollbackAction(a, c, b))) :
        a \in {"break", "place"}, c \in Coords, b \in NaturalBlocks \cup PlaceableBlocks}

\* a row that can be applied: one the plugin wrote, while a world is there to
\* apply it to
Sound(row) == row \in Recorded /\ (variant = "FortCore" => worlds # {})

Undo(w, row) ==
    [w EXCEPT ![<<int(row["x"]), int(row["y"]), int(row["z"])>>] =
        IF row["action"] = "place" THEN AIR ELSE row["block_type"]]

RECURSIVE UndoEach(_, _)
UndoEach(w, rows) ==
    IF rows = <<>> THEN w
    ELSE UndoEach(IF Sound(Head(rows)) THEN Undo(w, Head(rows)) ELSE w, Tail(rows))

ReplayOver(u) ==
    /\ StateOf(player_data, u) = "LOBBY"
    /\ u \notin DOMAIN files
    /\ TasksOf(u) = {}

----------------------------------------------------------------------------
(* Claims checked under SpecShutdown *)

Disabled(op) == op \in {"on_disable", "shutdown"}

\* the log of u is owed a replay by the scan of the next start: it holds a
\* record, and the plugin has just been disabled, or has started again with
\* the scan still to run, or the scan began the replay
OwedAfterShutdown(u) ==
    /\ u \in DOMAIN files
    /\ Len(DictReader(files[u])) >= 1
    /\ \/ Disabled(lastOp.op)
       \/ Scheduled("resume_incomplete_rollbacks", None, 0 - 1)
       \/ u \in resumed

\* what disabling the plugin leaves behind: the log of every player in MATCH or
\* ROLLBACK holds every mutation recorded for the player, no log is deleted,
\* and no registered replay task is left scheduled
DisableFlushes ==
    Disabled(lastOp'.op) =>
        /\ \A u \in Players :
              StateOf(player_data, u) \in {"MATCH", "ROLLBACK"} =>
                  /\ u \in DOMAIN files'
                  /\ DictReader(files'[u]) = LoggedRows(u)
        /\ DOMAIN files \subseteq DOMAIN files'
        /\ \A t \in repeating' : t.uid \notin DOMAIN rollback_tasks'

ShutdownFlushes == [][DisableFlushes]_vars

\* C19: on shutdown the buffer of every player in MATCH is appended to the
\* player's log and no log is deleted, so that the log of every player in
\* MATCH or ROLLBACK holds all of the player's recorded mutations; and the
\* scan of the next start replays them: such a log is deleted only by the step
\* that completes the replay of all its records.
C19_ShutdownLogsReplayed ==
    [][/\ DisableFlushes
       /\ \A u \in Players :
             (OwedAfterShutdown(u) /\ u \notin DOMAIN files') =>
                 applied'[u] = Reverse(DictReader(files[u]))]_vars

----------------------------------------------------------------------------
(* Claims checked under Spec: leaving ROLLBACK *)

\* C20: a player leaves ROLLBACK only for LOBBY, and only by the batch
\* invocation that takes the last rows of the player's replay queue; no other
\* step (a death while in ROLLBACK, a join, the delayed reset_player) changes
\* the state of a player in ROLLBACK.
C20_RollbackUntilDrained ==
    [][\A u \in Players :
          (/\ StateOf(player_data, u) = "ROLLBACK"
           /\ StateOf(player_data', u) # "ROLLBACK") =>
              /\ StateOf(player_data', u) = "LOBBY"
              /\ lastOp' = [op |-> "process_rollback_batch", uid |-> u]
              /\ PendingOf(player_data', u) = <<>>
              /\ applied'[u] = applied[u] \o PendingOf(player_data, u)]_vars

----------------------------------------------------------------------------
(* Claims checked under SpecReplay: the log of a match in progress *)

\* the rows csv.DictReader would give back for the buffer, were it flushed
BufferRows(u) ==
    [i \in 1..Len(BufferOf(player_data, u)) |->
        DictRow(HeaderRow, CsvRow(BufferOf(player_data, u)[i]))]

\* C21: while a player is in MATCH the records of the log followed by the
\* unflushed buffer are exactly the mutations recorded since the match began,
\* in arrival order, none lost and none twice; and a run of the flush task
\* appends the whole buffer of a player in MATCH to the log and leaves the
\* buffer empty.
C21_LogThenBuffer ==
    /\ [](\A u \in Players :
            StateOf(player_data, u) = "MATCH" =>
                /\ u \in DOMAIN files
                /\ DictReader(files[u]) \o BufferRows(u) = LoggedRows(u))
    /\ [][\A u \in Players :
             (/\ lastOp'.op = "flush_all_buffers"
              /\ StateOf(player_data, u) = "MATCH"
              /\ BufferOf(player_data, u) # <<>>) =>
                 /\ files'[u] = files[u] \o RowsOf(BufferOf(player_data, u))
                 /\ BufferOf(player_data', u) = <<>>
                 /\ StateOf(player_data', u) = "MATCH"]_vars

\* a flush has run in a match of three mutations: two are in the log, and one
\* recorded since is in the buffer
C21_Witness ==
    /\ StateOf(player_data, Solo) = "MATCH"
    /\ Len(logged[Solo]) = 3
    /\ Len(files[Solo]) = 3
    /\ Len(BufferOf(player_data, Solo)) = 1
    /\ lastOp.op \in {"on_block_break", "on_block_place"}

----------------------------------------------------------------------------
(* Claims checked under SpecRematch *)

\* the step takes u into a match
EntersMatch(u) ==
    /\ lastOp' \in {[op |-> "teleport_to_match", uid |-> u],
                    [op |-> "init_rollback", uid |-> u]}
    /\ StateOf(player_data', u) = "MATCH"

\* the step begins the replay of u's log
BeginsReplay(u) ==
    /\ lastOp' = [op |-> "start_rollback", uid |-> u]
    /\ StateOf(player_data, u) # "ROLLBACK"
    /\ StateOf(player_data', u) = "ROLLBACK"

\* the lines of a log below its header line
DataLines(f) == IF f # <<>> /\ Head(f) = HeaderRow THEN Tail(f) ELSE f

\* C22: the step that takes a player into MATCH leaves the player with an
\* empty buffer, an empty replay queue and a log of the header line alone,
\* whatever an earlier match or an unfinished rollback left behind; and the
\* replay that a later rollback begins is read from a log that holds the
\* lines of the records of that match and no others.
C22_FreshLog ==
    [][\A u \in Players :
          /\ EntersMatch(u) =>
                /\ BufferOf(player_data', u) = <<>>
                /\ PendingOf(player_data', u) = <<>>
                /\ u \in DOMAIN files'
                /\ files'[u] = <<HeaderRow>>
          /\ BeginsReplay(u) =>
                /\ u \in DOMAIN files'
                /\ DataLines(files'[u]) = RowsOf(logged'[u])
                /\ PendingOf(player_data', u) = read_rollback_csv(files', u)]_vars

\* a second match has ended while the replay of the first was unfinished (its
\* task is still scheduled): the new replay holds the one record of the
\* second match
C22_Witness ==
    /\ lastOp = [op |-> "start_rollback", uid |-> Solo]
    /\ StateOf(player_data, Solo) = "ROLLBACK"
    /\ Cardinality(TasksOf(Solo)) = 2
    /\ Len(logged[Solo]) = 1
    /\ Len(PendingOf(player_data, Solo)) = 1

----------------------------------------------------------------------------
(* Claims checked under SpecCrash *)

\* the blocks an uninterrupted rollback of u's match leaves: the blocks at the
\* end of the match with every record undone, newest first
Uninterrupted(u) ==
    UndoEach(PatternWorld(Len(logged[u])), Reverse(LoggedRows(u)))

\* C23: when the process stops after k of the N records of a rollback have
\* been applied, 0 <= k <= N, the log on disk still holds all N records; the
\* startup scan of the restart queues the whole log again, newest record
\* first; and when that replay has finished the blocks are those an
\* uninterrupted rollback leaves.
C23_ResumeIdempotent ==
    /\ [][\A u \in Players :
             /\ (lastOp'.op = "crash" /\ StateOf(player_data, u) = "ROLLBACK") =>
                   /\ u \in DOMAIN files'
                   /\ files' = files
                   /\ DictReader(files'[u]) = LoggedRows(u)
                   /\ world' = world
                   /\ Scheduled("resume_incomplete_rollbacks", None, 0 - 1)'
             /\ (lastOp'.op = "resume_incomplete_rollbacks" /\ u \in DOMAIN files) =>
                   /\ StateOf(player_data', u) = "ROLLBACK"
                   /\ PendingOf(player_data', u) = Reverse(LoggedRows(u))
                   /\ applied'[u] = <<>>
                   /\ u \in resumed']_vars
    /\ [](\A u \in Players :
            (u \in resumed /\ ReplayComplete(u)) => world = Uninterrupted(u))

\* FortCore was killed after the first two of three records were undone, the
\* replay was started over by the scan and has finished
C23_Witness ==
    /\ variant = "FortCore"
    /\ Solo \in resumed
    /\ ReplayComplete(Solo)
    /\ Len(logged[Solo]) = 3
    /\ Len(applied[Solo]) = 3
    /\ world = PatternPristine

----------------------------------------------------------------------------
(* Claims checked under SpecMenu *)

\* the checks of a kit selection, on the state before it
InRange(k) == k < Len(plugin_config.kits) /\ k < Len(plugin_config.maps)
KitName(k) == plugin_config.kits[k + 1].name
InKit(k) ==
    {v \in Players : StateOf(player_data, v) = "MATCH"
                      /\ player_data[v].current_kit = KitName(k)}
KitFull(k) == Cardinality(InKit(k)) >= plugin_config.kits[k + 1].maxPlayers
CoolingDown(k) ==
    /\ KitName(k) \in DOMAIN teleport_cooldown
    /\ teleport_cooldown[KitName(k)] < COOLDOWN_SECONDS

Rejected(u, k) ==
    \/ ~InRange(k)
    \/ StateOf(player_data, u) # "LOBBY"
    \/ KitFull(k)
    \/ CoolingDown(k)

\* the teleports the step schedules
NewTeleports ==
    {t \in OneShots : t.fn = "teleport_to_match" /\ oneshots'[t] > oneshots[t]}

\* C24: a kit selection changes the player's state, the cooldown table or
\* the scheduled tasks only for a button whose selection is not rejected: the
\* index is in range, the player is in LOBBY, the kit is not full and its
\* cooldown has elapsed.  Every other selection leaves the states, the
\* cooldown table, the buffers, the logs and the scheduled tasks as they were.
C24_RejectionChangesNothing ==
    [][\A u \in Players :
          lastOp' = [op |-> "handle_kit_select", uid |-> u] =>
              \/ /\ player_data' = player_data
                 /\ teleport_cooldown' = teleport_cooldown
                 /\ files' = files
                 /\ oneshots' = oneshots
                 /\ repeating' = repeating
                 /\ world' = world
              \/ \E k \in MenuIndexes :
                    /\ ~Rejected(u, k)
                    /\ NewTeleports = {Task("teleport_to_match", u, k)}
                    /\ StateOf(player_data', u) = "TELEPORTING"]_vars

\* p2, in the lobby, has pressed a button and nothing came of it; whichever
\* button it was the selection was rejected: the first kit is full (its
\* cooldown has elapsed), the second is cooling down, the third has no map
C24_Witness ==
    /\ lastOp = [op |-> "handle_kit_select", uid |-> PlayerName[2]]
    /\ StateOf(player_data, PlayerName[2]) = "LOBBY"
    /\ KitFull(0) /\ ~CoolingDown(0)
    /\ ~KitFull(1) /\ CoolingDown(1)
    /\ ~InRange(2)
    /\ \A t \in OneShots : t.fn = "teleport_to_match" => oneshots[t] = 0

\* what handle_kit_select makes of button k pressed by u in the present state
Selecting(u, k) == handle_kit_select_fn(Cur, u, k)

\* C25: a join for a kit is accepted only when five seconds have passed since
\* the last accepted join for that kit: pressed earlier, the button changes no
\* state and schedules no teleport, so no two players enter TELEPORTING for
\* one kit within five seconds of each other.  The cooldown of one kit does
\* not block another: a player in LOBBY pressing the button of a kit that is
\* not full and whose own five seconds have passed is accepted, however
\* lately a join for another kit was accepted.
C25_CooldownPerKit ==
    /\ [][\A k \in DOMAIN since_join :
             k \in JoinedKits([oneshots |-> oneshots', plugin_config |-> plugin_config'])
                 => since_join[k] >= COOLDOWN_SECONDS]_vars
    /\ [](\A u \in Players, k \in MenuIndexes :
            (u \in online /\ InRange(k)) =>
                /\ since_join[KitName(k)] < COOLDOWN_SECONDS =>
                      /\ Selecting(u, k).player_data = player_data
                      /\ Selecting(u, k).oneshots = oneshots
                /\ (/\ since_join[KitName(k)] >= COOLDOWN_SECONDS
                    /\ StateOf(player_data, u) = "LOBBY"
                    /\ ~KitFull(k)) =>
                      /\ Selecting(u, k).player_data[u].state = "TELEPORTING"
                      /\ Selecting(u, k).oneshots[Task("teleport_to_match", u, k)]
                            = oneshots[Task("teleport_to_match", u, k)] + 1)

\* p2's join for the second kit has just been accepted, between one and four
\* seconds after p1's join for the first kit
C25_Witness ==
    /\ lastOp = [op |-> "handle_kit_select", uid |-> PlayerName[2]]
    /\ StateOf(player_data, PlayerName[2]) = "TELEPORTING"
    /\ Scheduled("teleport_to_match", PlayerName[2], 1)
    /\ since_join[KitName(1)] = 0
    /\ since_join[KitName(0)] \in 1..(COOLDOWN_SECONDS - 1)
    /\ StateOf(player_data, PlayerName[1]) = "MATCH"
    /\ player_data[PlayerName[1]].current_kit = KitName(0)

----------------------------------------------------------------------------
(* Claims checked under SpecCorrupt: exceptions *)

\* C26: no failure while reverting a record leaves the scheduler callback
\* process_rollback_batch, whatever the record holds, a missing coordinate or
\* one that is not an integer included: every callback returns normally.
C26_CallbackReturns == ~raised

----------------------------------------------------------------------------
(* Claims checked under SpecLeftover *)

\* the batch callback that empties the queue of u runs, and the delete that
\* finish_rollback attempts raises
DeleteFails(u) ==
    /\ lastOp'.op = "process_rollback_batch"
    /\ lastOp'.uid = u
    /\ StateOf(player_data, u) = "ROLLBACK"
    /\ Len(PendingOf(player_data, u)) <=
           (IF variant = "FortCore" THEN BATCH_SIZE
            ELSE RM_calculate_batch_params(Len(PendingOf(player_data, u))))
    /\ player_data[u].csv_path = u
    /\ u \in DOMAIN files
    /\ u \in undeletable

\* the startup scan runs
Scans == lastOp'.op = "resume_incomplete_rollbacks"

----------------------------------------------------------------------------
(* Claims checked under SpecReplay: the reset at the end of a rollback *)

\* the batch callback of u runs in ROLLBACK and leaves the queue empty
Drains(u) ==
    /\ lastOp'.op = "process_rollback_batch"
    /\ lastOp'.uid = u
    /\ StateOf(player_data, u) = "ROLLBACK"
    /\ PendingOf(player_data', u) = <<>>

\* C28: when the replay of a player drains, the player is in LOBBY; if the
\* player is connected, reset_player has been invoked exactly once for this
\* rollback and the completion message has been sent after it; if not, no
\* call has been made on the player.
C28_ResetOnceOnDrain ==
    [][\A u \in Players :
          Drains(u) =>
              /\ player_data'[u].state = "LOBBY"
              /\ player_calls'[u] = IF u \in online
                                    THEN <<"reset_player", "send_message">>
                                    ELSE <<>>]_vars

----------------------------------------------------------------------------
(* Claims checked under SpecShared *)

\* start_rollback is called for u, who is in a match
Departs(u) ==
    /\ lastOp'.op = "start_rollback"
    /\ lastOp'.uid = u
    /\ StateOf(player_data, u) = "MATCH"

\* the other players in MATCH under the match key of u
Others(u) ==
    {v \in DOMAIN player_data \ {u} :
        /\ player_data[v].state = "MATCH"
        /\ player_data[v].current_match = player_data[u].current_match}

\* C29: when start_rollback is called for a player while another player is in
\* MATCH under the same match key, no block changes, the player's log is
\* deleted, buffer, queue, tracked blocks and log path are cleared, no task is
\* scheduled, and the player is in LOBBY, never in ROLLBACK; a replay is
\* scheduled only for a player who leaves as the last participant, and then
\* it holds all the player's records, newest first.
C29_LastParticipantReplays ==
    [][\A u \in Players :
          Departs(u) =>
              IF Others(u) # {}
              THEN /\ world' = world
                   /\ u \notin DOMAIN files'
                   /\ player_data'[u].state = "LOBBY"
                   /\ player_data'[u].rollback_buffer = <<>>
                   /\ player_data'[u].pending_rollback_actions = <<>>
                   /\ player_data'[u].affected_blocks = {}
                   /\ player_data'[u].csv_path = None
                   /\ u \notin DOMAIN rollback_tasks'
                   /\ \A t \in repeating' : t.uid # u
                   /\ applied'[u] = <<>>
              ELSE IF logged[u] # <<>>
                   THEN /\ player_data'[u].state = "ROLLBACK"
                        /\ player_data'[u].pending_rollback_actions =
                               Reverse(LoggedRows(u))
                        /\ \E t \in repeating' : t.uid = u /\ t.id = rollback_tasks'[u]
                   ELSE player_data'[u].state = "LOBBY"]_vars

\* the first player left while the second was in the same match, with a
\* record of its own in the log that was deleted; the second is still there
C29_Witness ==
    /\ lastOp = [op |-> "start_rollback", uid |-> Solo]
    /\ logged[Solo] # <<>>
    /\ Solo \notin DOMAIN files
    /\ StateOf(player_data, Solo) = "LOBBY"
    /\ StateOf(player_data, Second) = "MATCH"
    /\ player_data[Second].current_match = "match"
    /\ world # pristine

----------------------------------------------------------------------------
(* Claims checked under SpecReplay: the batch size of RollbackManager *)

\* the batch callback of RollbackManager runs for u, who is in ROLLBACK
BatchStep(u) ==
    /\ variant = "RollbackManager"
    /\ lastOp'.op = "process_rollback_batch"
    /\ lastOp'.uid = u
    /\ StateOf(player_data, u) = "ROLLBACK"

\* C30: every invocation of one RollbackManager rollback applies the batch
\* that calculate_batch_params gives for the backlog the rollback started
\* with (the last invocation the rest), so that a backlog of N rows is
\* drained by invocation number ceil(N / batch(N)).
C30_BatchFromTotal ==
    [][\A u \in Players :
          BatchStep(u) =>
              LET batch == RM_calculate_batch_params(backlog[u])
              IN  /\ Len(applied'[u]) - Len(applied[u]) =
                         Min(batch, Len(PendingOf(player_data, u)))
                  /\ PendingOf(player_data', u) = <<>> =>
                         invocations'[u] = (backlog[u] + batch - 1) \div batch]_vars

----------------------------------------------------------------------------
(* Claims checked under SpecRematch: the order of the lifecycle *)

\* the handlers that call start_rollback
Triggers == {"on_player_quit", "on_command", "start_rollback"}

\* C31: a player who is in MATCH before a step is in MATCH or in ROLLBACK
\* after it, or in LOBBY when the step is a rollback trigger and the match has
\* nothing recorded (start_rollback finishes at once); and the log of a match
\* with records is still on disk when its rollback begins.  No callback moves
\* a player from MATCH to LOBBY otherwise, or discards the buffer or the log
\* of a match that has not been replayed.
C31_MatchEndsInRollback ==
    [][\A u \in Players :
          StateOf(player_data, u) = "MATCH" =>
              /\ \/ StateOf(player_data', u) \in {"MATCH", "ROLLBACK"}
                 \/ /\ StateOf(player_data', u) = "LOBBY"
                    /\ lastOp'.op \in Triggers
                    /\ lastOp'.uid = u
                    /\ logged[u] = <<>>
              /\ logged[u] # <<>> =>
                     /\ u \in DOMAIN files'
                     /\ Len(BufferOf(player_data', u)) + Len(files'[u]) >=
                            Len(BufferOf(player_data, u)) + Len(files[u])]_vars

\* C32: a start_rollback callback that runs for a player who is in LOBBY or
\* in TELEPORTING leaves the player's record, the log directory, the blocks
\* and the tasks as they are and makes no call on the player: only a player
\* in MATCH enters ROLLBACK through it.
C32_RollbackOnlyFromMatch ==
    [][\A u \in Players :
          /\ lastOp'.op = "start_rollback"
          /\ lastOp'.uid = u
          /\ StateOf(player_data, u) \in {"LOBBY", "TELEPORTING"}
          => /\ StateOf(player_data', u) = StateOf(player_data, u)
             /\ player_calls'[u] = player_calls[u]
             /\ files' = files
             /\ world' = world
             /\ repeating' = repeating]_vars

-----------------------------------------------------------------------------
(* Claims checked under SpecMenu: the capacity of a kit                      *)

\* C33: whatever the interleaving of kit selections, scheduled teleports and
\* leaves, the number of players in MATCH with a kit never exceeds the kit's
\* maxPlayers (the capacity check does not count players in TELEPORTING).
C33_NeverOverCapacity ==
    \A k \in 0..(Len(plugin_config.kits) - 1) :
        Cardinality(InKit(k)) <= plugin_config.kits[k + 1].maxPlayers

\* the first player has been accepted for the first kit and its teleport is
\* still to run, so the kit counts nobody; the second player then answered the
\* menu and is still in the lobby
C33_Witness ==
    /\ StateOf(player_data, PlayerName[1]) = "TELEPORTING"
    /\ oneshots[Task("teleport_to_match", PlayerName[1], 0)] > 0
    /\ Cardinality(InKit(0)) < plugin_config.kits[1].maxPlayers
    /\ CoolingDown(0)
    /\ lastOp = [op |-> "handle_kit_select", uid |-> PlayerName[2]]
    /\ StateOf(player_data, PlayerName[2]) = "LOBBY"

-----------------------------------------------------------------------------
(* Claims checked under SpecCleanup: the cleanup pass of RollbackManager     *)

\* the coordinates of the cleanup rows the replay has applied
CleanedUp(u) ==
    {CoordOf(applied[u][i]) : i \in {j \in 1..Len(applied[u]) :
                                        applied[u][j]["action"] = "cleanup"}}

\* track_affected_area had been called for every recorded mutation, and the
\* replay went through the reversed log and the cleanup rows after it
TrackedReplay(u) ==
    /\ logged[u] # <<>>
    /\ Len(applied[u]) > Len(logged[u])
    /\ SubSeq(applied[u], 1, Len(logged[u])) = Reverse(LoggedRows(u))
    /\ \A i \in 1..Len(logged[u]) :
          <<str(logged[u][i].x), str(logged[u][i].y), str(logged[u][i].z)>>
              \in CleanedUp(u)

\* C34: RollbackManager, track_affected_area called for the recorded
\* mutations: after the full replay (the reversed log, then the cleanup rows)
\* every coordinate with a BREAK record holds its original block type; the
\* cleanup pass does not undo the inverse pass.
C34_CleanupKeepsRestored ==
    (variant = "RollbackManager" /\ ReplayComplete(Solo) /\ TrackedReplay(Solo)) =>
        \A i \in 1..Len(logged[Solo]) :
            LET a == logged[Solo][i]
            IN  a.action_type = "break" =>
                    world[<<a.x, a.y, a.z>>] = pristine[<<a.x, a.y, a.z>>]

-----------------------------------------------------------------------------
(* Claims checked under SpecShared: the match is empty at last               *)

\* u recorded mutations in its match and left it while another participant
\* was still playing: its log is gone and no row of it has been applied
LeftEarlier(u) ==
    /\ logged[u] # <<>>
    /\ applied[u] = <<>>
    /\ ReplayComplete(u)

\* C35: RollbackManager: once the last participant of a match has left and
\* that rollback has completed, the block changes of every participant have
\* been reverted, also those of a participant who left earlier while others
\* were still playing: every coordinate such a participant changed holds its
\* pre-match type.
C35_EarlierLeaversReverted ==
    (variant = "RollbackManager" /\ AllRollbacksDone) =>
        \A u \in Players :
            LeftEarlier(u) =>
                \A i \in 1..Len(logged[u]) :
                    LET c == <<logged[u][i].x, logged[u][i].y, logged[u][i].z>>
                    IN  world[c] = pristine[c]

====
